---- MODULE Spec2Model ----
(***************************************************************************)
(* Model of the GGUF vision-encoder loaders and encoders of the repository *)
(* (SigLIP, DINOv2, EVA-CLIP, OpenCLIP, Nomic).                            *)
(*                                                                         *)
(* An archive is a sequence of bytes.  The loaders read it through a FILE  *)
(* position; every reader below is a function of (file, position).        *)
(* Strings of the source (metadata keys, tensor names) are abbreviated to  *)
(* short byte strings; the abbreviations are listed with the keys.         *)
(***************************************************************************)
EXTENDS Integers, Sequences, FiniteSets, TLC

VARIABLES
    variant,     \* which loader / skip routine runs
    file,        \* the archive: a sequence of bytes
    arch,        \* the structure the archive was built from (ghost)
    phase,       \* "init", "loaded", "failed", "crashed"
    ctx,         \* the model context returned by the load (hparams, slots)
    res,         \* resources held: context object, weight arena, backend, file
    last_error,  \* the thread's last-error string ("" when none)
    trace,       \* positions observed during the load (ghost)
    enc,         \* the last encode call: arguments, return value, buffer
    probe        \* a skip routine applied to one metadata value

vars == <<variant, file, arch, phase, ctx, res, last_error, trace, enc, probe>>

----------------------------------------------------------------------------
(* Bounds of the model *)

MaxStrLen == 2      \* longest string value in a probed metadata value
MaxArrLen == 2      \* most elements in a probed array value
BigVal == 16777216  \* integers read from the file saturate here (2^24)

----------------------------------------------------------------------------
(* Bytes and little-endian fields *)

\* A value below 2^24 written as a w-byte little-endian field.
LE(n, w) ==
    [i \in 1..w |->
        IF i = 1 THEN n % 256
        ELSE IF i = 2 THEN (n \div 256) % 256
        ELSE IF i = 3 THEN (n \div 65536) % 256
        ELSE 0]

IsSmall(bs) == \A i \in 4..Len(bs) : bs[i] = 0

Low24(bs) ==
    (IF Len(bs) >= 1 THEN bs[1] ELSE 0)
    + (IF Len(bs) >= 2 THEN 256 * bs[2] ELSE 0)
    + (IF Len(bs) >= 3 THEN 65536 * bs[3] ELSE 0)

\* The unsigned integer held by a little-endian field, saturated at BigVal.
UInt(bs) == IF IsSmall(bs) THEN Low24(bs) ELSE BigVal

\* A 64-bit field whose top bit is set is negative when cast to long.
IsNegLong(bs) == Len(bs) = 8 /\ bs[8] >= 128

RECURSIVE Concat(_)
Concat(ss) == IF ss = <<>> THEN <<>> ELSE Head(ss) \o Concat(Tail(ss))

Max(a, b) == IF a >= b THEN a ELSE b
Min(a, b) == IF a <= b THEN a ELSE b

----------------------------------------------------------------------------
(* stdio: fread and fseek on (file, position) *)

\* fread(buf, w, 1, f): one item of w bytes.  A short read consumes what is
\* left and leaves the position at end of file.
Fread(f, pos, w) ==
    IF pos + w <= Len(f)
    THEN [ok |-> TRUE, bs |-> SubSeq(f, pos + 1, pos + w), pos |-> pos + w]
    ELSE [ok |-> FALSE, bs |-> <<>>, pos |-> Max(pos, Len(f))]

\* fseek(f, n, SEEK_CUR) with n >= 0 never fails, also beyond end of file.
FseekCur(pos, n) == IF pos + n >= BigVal THEN BigVal ELSE pos + n

\* An unchecked fread(&x, w, 1, f) into an integer that held `prior`: on a
\* short read the bytes that were left overwrite the low bytes of x and the
\* rest of x keeps what it held.
Partial(f, pos, prior) ==
    LET avail == IF pos < Len(f) THEN SubSeq(f, pos + 1, Len(f)) ELSE <<>>
        k == Len(avail)
    IN IF k = 0 THEN prior
       ELSE IF prior = 0 THEN UInt(avail)
       ELSE IF k >= 3 THEN BigVal
       ELSE Min(BigVal, UInt(avail) + (IF k = 1 THEN 256 ELSE 65536) * prior)

Field(f, pos, w, prior) ==
    LET r == Fread(f, pos, w) IN
    [v |-> IF r.ok THEN UInt(r.bs) ELSE Partial(f, pos, prior),
     pos |-> r.pos, ok |-> r.ok]

\* fseek(f, n, SEEK_SET).
FseekSet(n) == IF n >= BigVal THEN BigVal ELSE n

\* a * b, saturated at BigVal.
SatMul(a, b) ==
    IF a = 0 \/ b = 0 THEN 0
    ELSE IF a >= BigVal \/ b >= BigVal THEN BigVal
    ELSE IF a > BigVal \div b THEN BigVal
    ELSE a * b

----------------------------------------------------------------------------
(* GGUF metadata values, as the archive writer lays them out *)

GGUF_TYPE_UINT8   == 0
GGUF_TYPE_INT8    == 1
GGUF_TYPE_UINT16  == 2
GGUF_TYPE_INT16   == 3
GGUF_TYPE_UINT32  == 4
GGUF_TYPE_INT32   == 5
GGUF_TYPE_FLOAT32 == 6
GGUF_TYPE_BOOL    == 7
GGUF_TYPE_STRING  == 8
GGUF_TYPE_ARRAY   == 9
GGUF_TYPE_UINT64  == 10
GGUF_TYPE_INT64   == 11
GGUF_TYPE_FLOAT64 == 12

ScalarTypes == (0..7) \cup (10..12)
DeclaredTypes == 0..12

\* Bytes a value of a fixed-width type occupies in the archive.
TypeWidth(t) ==
    CASE t \in {GGUF_TYPE_UINT8, GGUF_TYPE_INT8, GGUF_TYPE_BOOL} -> 1
      [] t \in {GGUF_TYPE_UINT16, GGUF_TYPE_INT16} -> 2
      [] t \in {GGUF_TYPE_UINT32, GGUF_TYPE_INT32, GGUF_TYPE_FLOAT32} -> 4
      [] t \in {GGUF_TYPE_UINT64, GGUF_TYPE_INT64, GGUF_TYPE_FLOAT64} -> 8
      [] OTHER -> 0

\* A string in the archive: 8-byte length, then the bytes.
EncStr(s) == LE(Len(s), 8) \o s

\* A metadata value is a record: a scalar [t, n], a string [t, s] or an
\* array [t, et, xs] whose elements all have type et.
RECURSIVE EncVal(_)
EncVal(v) ==
    IF v.t = GGUF_TYPE_STRING THEN EncStr(v.s)
    ELSE IF v.t = GGUF_TYPE_ARRAY
    THEN LE(v.et, 4) \o LE(Len(v.xs), 8)
         \o Concat([i \in 1..Len(v.xs) |-> EncVal(v.xs[i])])
    ELSE LE(v.n, TypeWidth(v.t))

----------------------------------------------------------------------------
(* Reading a string *)

\* What a reader returns: the bytes read, the new position, whether the
\* call succeeded, and whether it ended the process (uncaught exception).
Rd(s, pos, ok) == [s |-> s, pos |-> pos, ok |-> ok, crash |-> FALSE]
RdCrash(pos) == [s |-> <<>>, pos |-> pos, ok |-> FALSE, crash |-> TRUE]

\* gguf_read_string: 8-byte length, then that many bytes; "" on a short read.
\* std::string(len) with a length the allocator refuses throws; allocOk says
\* whether an allocation of 2^24 bytes or more succeeds.
gguf_read_string(f, pos, allocOk) ==
    LET h == Fread(f, pos, 8) IN
    IF ~h.ok THEN Rd(<<>>, h.pos, FALSE)
    ELSE IF ~IsSmall(h.bs)
    THEN IF IsNegLong(h.bs) \/ ~allocOk THEN RdCrash(h.pos)
         ELSE Rd(<<>>, Max(h.pos, Len(f)), FALSE)
    ELSE LET len == Low24(h.bs) IN
         IF h.pos + len <= Len(f)
         THEN Rd(SubSeq(f, h.pos + 1, h.pos + len), h.pos + len, TRUE)
         ELSE Rd(<<>>, Max(h.pos, Len(f)), FALSE)

----------------------------------------------------------------------------
(* Skipping the value of an unrecognised metadata key *)

\* What a skip returns: the new position, the routine's return value, and
\* whether it ended the process.
Sk(pos, ok, crash) == [pos |-> pos, ok |-> ok, crash |-> crash]

\* Per-type sizes, indexed by type tag + 1.
SiglipSizes == <<1, 1, 2, 2, 4, 4, 4, 1, 0, 0, 8, 8, 8>>
Dinov2SkipSizes == <<1, 1, 2, 2, 4, 4, 8, 8, 0, 0, 8, 8, 8, 1>>
NomicSkipSizes == <<1, 1, 2, 2, 4, 4, 8, 8, 0, 0, 0, 0, 8, 1>>

\* siglip_load_model_with_progress, the else branch of the key dispatch.
siglip_skip_unknown(f, pos, type, allocOk) ==
    IF type = GGUF_TYPE_STRING
    THEN LET r == gguf_read_string(f, pos, allocOk) IN Sk(r.pos, TRUE, r.crash)
    ELSE IF type <= GGUF_TYPE_FLOAT64 /\ type # GGUF_TYPE_STRING
    THEN IF type < Len(SiglipSizes)
         THEN Sk(Fread(f, pos, SiglipSizes[type + 1]).pos, TRUE, FALSE)
         ELSE Sk(pos, TRUE, FALSE)
    ELSE Sk(pos, TRUE, FALSE)

\* The skip routines that fseek over a table entry (dinov2, evaclip, nomic,
\* openclip); they differ in the table only.
SeekSkip(f, pos, type, sizes) ==
    IF type = 8
    THEN LET h == Fread(f, pos, 8) IN
         IF ~h.ok THEN Sk(h.pos, FALSE, FALSE)
         ELSE IF IsNegLong(h.bs) THEN Sk(h.pos, FALSE, FALSE)
         ELSE Sk(FseekCur(h.pos, UInt(h.bs)), TRUE, FALSE)
    ELSE IF type < 14 /\ sizes[type + 1] > 0
    THEN Sk(FseekCur(pos, sizes[type + 1]), TRUE, FALSE)
    ELSE Sk(pos, FALSE, FALSE)

dinov2_gguf_skip_value(f, pos, type) == SeekSkip(f, pos, type, Dinov2SkipSizes)
evaclip_gguf_skip_value(f, pos, type) == SeekSkip(f, pos, type, Dinov2SkipSizes)
nomic_gguf_skip_value(f, pos, type) == SeekSkip(f, pos, type, NomicSkipSizes)
openclip_gguf_skip_value(f, pos, type) == SeekSkip(f, pos, type, NomicSkipSizes)

\* gguf_skip_metadata_value (siglip_gguf.cpp): strings and arrays are read,
\* fixed-width values are fread into a scratch buffer.  The element loop
\* stops early when an element consumed nothing: every later iteration
\* would do the same.
RECURSIVE gguf_skip_metadata_value(_, _, _, _)
RECURSIVE GgufSkipElems(_, _, _, _, _)
gguf_skip_metadata_value(f, pos, type, allocOk) ==
    IF type = GGUF_TYPE_STRING
    THEN LET r == gguf_read_string(f, pos, allocOk) IN Sk(r.pos, TRUE, r.crash)
    ELSE IF type = GGUF_TYPE_ARRAY
    THEN LET a == Fread(f, pos, 4)
             b == Fread(f, a.pos, 8)
         IN IF ~a.ok \/ ~b.ok THEN Sk(b.pos, TRUE, FALSE)
            ELSE LET r == GgufSkipElems(f, b.pos, UInt(a.bs), UInt(b.bs), allocOk)
                 IN Sk(r.pos, TRUE, r.crash)
    ELSE IF type < Len(SiglipSizes)
    THEN LET r == Fread(f, pos, SiglipSizes[type + 1]) IN Sk(r.pos, r.ok, FALSE)
    ELSE Sk(pos, FALSE, FALSE)
GgufSkipElems(f, pos, arr_type, n, allocOk) ==
    IF n = 0 THEN Sk(pos, TRUE, FALSE)
    ELSE LET r == gguf_skip_metadata_value(f, pos, arr_type, allocOk) IN
         IF r.crash \/ r.pos = pos THEN r
         ELSE GgufSkipElems(f, r.pos, arr_type, n - 1, allocOk)

\* nomic_gguf_skip_value of nomic_cpp/nomic_core.cpp: like the above, but
\* fixed-width values are skipped with fseek, which also moves past the end
\* of the file.  g is the value an uninitialised integer happens to hold.
RECURSIVE nomic_cpp_gguf_skip_value(_, _, _, _, _)
RECURSIVE NomicCppSkipElems(_, _, _, _, _, _)
nomic_cpp_gguf_skip_value(f, pos, type, allocOk, g) ==
    IF type = GGUF_TYPE_STRING
    THEN LET r == gguf_read_string(f, pos, allocOk) IN Sk(r.pos, TRUE, r.crash)
    ELSE IF type = GGUF_TYPE_ARRAY
    THEN LET a == Fread(f, pos, 4)
             b == Fread(f, a.pos, 8)
             arr_type == IF a.ok THEN UInt(a.bs) ELSE g
             arr_len == IF b.ok THEN UInt(b.bs) ELSE g
             r == NomicCppSkipElems(f, b.pos, arr_type, arr_len, allocOk, g)
         IN Sk(r.pos, TRUE, r.crash)
    ELSE IF type < 13 /\ SiglipSizes[type + 1] > 0
    THEN Sk(FseekCur(pos, SiglipSizes[type + 1]), TRUE, FALSE)
    ELSE Sk(pos, FALSE, FALSE)
NomicCppSkipElems(f, pos, arr_type, n, allocOk, g) ==
    IF n = 0 THEN Sk(pos, TRUE, FALSE)
    ELSE IF pos >= Len(f) /\ arr_type < 13 /\ arr_type \notin {8, 9}
    THEN Sk(FseekCur(pos, Min(BigVal, n * SiglipSizes[arr_type + 1])), TRUE, FALSE)
    ELSE IF pos >= Len(f) /\ arr_type = GGUF_TYPE_ARRAY
    THEN \* every element's header read fails: type and count are both g
         LET w == IF g < 13 /\ g \notin {8, 9} THEN SiglipSizes[g + 1] ELSE 0
         IN Sk(FseekCur(pos, Min(BigVal, n * g * w)), TRUE, FALSE)
    ELSE LET r == nomic_cpp_gguf_skip_value(f, pos, arr_type, allocOk, g) IN
         IF r.crash \/ r.pos = pos THEN r
         ELSE NomicCppSkipElems(f, r.pos, arr_type, n - 1, allocOk, g)

----------------------------------------------------------------------------
(* Probing the skip routines: one metadata value, followed by the next     *)
(* entry of the archive, and one call of a skip routine on it.             *)

VScalar(t, n) == [t |-> t, n |-> n, s |-> <<>>, et |-> 0, xs |-> <<>>]
VString(s) == [t |-> GGUF_TYPE_STRING, n |-> 0, s |-> s, et |-> 0, xs |-> <<>>]
VArray(et, xs) == [t |-> GGUF_TYPE_ARRAY, n |-> 0, s |-> <<>>, et |-> et, xs |-> xs]

StrOfLen(k) == [i \in 1..k |-> 97]

ScalarValues == {VScalar(t, 1) : t \in ScalarTypes}
StringValues == {VString(StrOfLen(k)) : k \in 0..MaxStrLen}
ScalarArrays ==
    {VArray(t, [i \in 1..k |-> VScalar(t, 1)]) : t \in ScalarTypes, k \in 0..MaxArrLen}
StringArrays ==
    UNION {{VArray(GGUF_TYPE_STRING, xs) : xs \in [1..k -> StringValues]} :
           k \in 0..MaxArrLen}
InnerArrays ==
    {a \in ScalarArrays \cup StringArrays :
        a.et \in {GGUF_TYPE_UINT32, GGUF_TYPE_STRING} /\ Len(a.xs) <= 1}
NestedArrays ==
    UNION {{VArray(GGUF_TYPE_ARRAY, xs) : xs \in [1..k -> InnerArrays]} :
           k \in 0..MaxArrLen}
ProbeValues ==
    ScalarValues \cup StringValues \cup ScalarArrays \cup StringArrays
    \cup NestedArrays

\* The entry that follows the probed value: key "nx", type UINT32, value 1.
NextKey == <<110, 120>>
NextEntry == EncStr(NextKey) \o LE(GGUF_TYPE_UINT32, 4) \o LE(1, 4)

SkipRoutines ==
    {"siglip", "siglip_gguf", "dinov2", "evaclip", "nomic", "nomic_cpp", "openclip"}

\* Values an uninitialised integer is taken to hold.
Garbage == {0, 3}

NoProbe == [val |-> VScalar(0, 0), pos |-> 0, done |-> FALSE, ok |-> FALSE,
            crash |-> FALSE]

Probed(r) == [probe EXCEPT !.pos = r.pos, !.done = TRUE, !.ok = r.ok,
                           !.crash = r.crash]

ProbeFrame == UNCHANGED <<variant, file, arch, phase, ctx, res, last_error, trace, enc>>

ProbeSiglip ==
    /\ phase = "probe" /\ variant = "siglip" /\ ~probe.done
    /\ \E allocOk \in BOOLEAN :
          probe' = Probed(siglip_skip_unknown(file, probe.pos, probe.val.t, allocOk))
    /\ ProbeFrame

ProbeSiglipGguf ==
    /\ phase = "probe" /\ variant = "siglip_gguf" /\ ~probe.done
    /\ \E allocOk \in BOOLEAN :
          probe' = Probed(gguf_skip_metadata_value(file, probe.pos, probe.val.t, allocOk))
    /\ ProbeFrame

ProbeDinov2 ==
    /\ phase = "probe" /\ variant = "dinov2" /\ ~probe.done
    /\ probe' = Probed(dinov2_gguf_skip_value(file, probe.pos, probe.val.t))
    /\ ProbeFrame

ProbeEvaclip ==
    /\ phase = "probe" /\ variant = "evaclip" /\ ~probe.done
    /\ probe' = Probed(evaclip_gguf_skip_value(file, probe.pos, probe.val.t))
    /\ ProbeFrame

ProbeNomic ==
    /\ phase = "probe" /\ variant = "nomic" /\ ~probe.done
    /\ probe' = Probed(nomic_gguf_skip_value(file, probe.pos, probe.val.t))
    /\ ProbeFrame

ProbeNomicCpp ==
    /\ phase = "probe" /\ variant = "nomic_cpp" /\ ~probe.done
    /\ \E allocOk \in BOOLEAN, g \in Garbage :
          probe' = Probed(nomic_cpp_gguf_skip_value(file, probe.pos, probe.val.t,
                                                    allocOk, g))
    /\ ProbeFrame

ProbeOpenclip ==
    /\ phase = "probe" /\ variant = "openclip" /\ ~probe.done
    /\ probe' = Probed(openclip_gguf_skip_value(file, probe.pos, probe.val.t))
    /\ ProbeFrame

NoArch == [kvs |-> <<>>, tensors |-> <<>>]
NoCtx == [valid |-> FALSE]
NoRes == [ctxObj |-> FALSE, ctx_data |-> FALSE, backend |-> FALSE, fileOpen |-> FALSE]
NoTrace == [data_start |-> 0]
NoEnc == [called |-> FALSE]

InitSkip ==
    /\ variant \in SkipRoutines
    /\ \E v \in ProbeValues :
          /\ probe = [NoProbe EXCEPT !.val = v]
          /\ file = EncVal(v) \o NextEntry
    /\ arch = NoArch
    /\ phase = "probe"
    /\ ctx = NoCtx
    /\ res = NoRes
    /\ last_error = ""
    /\ trace = NoTrace
    /\ enc = NoEnc

NextSkip ==
    \/ ProbeSiglip
    \/ ProbeSiglipGguf
    \/ ProbeDinov2
    \/ ProbeEvaclip
    \/ ProbeNomic
    \/ ProbeNomicCpp
    \/ ProbeOpenclip

SpecSkip == InitSkip /\ [][NextSkip]_vars

\* The bytes the probed value occupies.
ValueBytes == Len(EncVal(probe.val))

\* C1: for every declared type tag (0-12), skipping the value of an
\* unrecognised key advances the stream by exactly the bytes the value
\* occupies, so the next key is read from its first byte.
C1_SkipAdvancesExactly ==
    (probe.done /\ probe.val.t \in DeclaredTypes) =>
        /\ probe.pos = ValueBytes
        /\ gguf_read_string(file, probe.pos, TRUE).s = NextKey

\* C2: skipping a value of array type consumes the element type tag, the
\* element count and exactly that many elements, leaving the stream at the
\* first byte after the array.
C2_ArraySkipExact ==
    (probe.done /\ probe.val.t = GGUF_TYPE_ARRAY) => probe.pos = ValueBytes

----------------------------------------------------------------------------
(* The archive: header, metadata entries, tensor descriptors, padding to   *)
(* the alignment boundary, tensor payloads.                                *)

\* GGUF_MAGIC 0x46554747 as it lies in the file, and a header that is not GGUF.
MagicBytes == <<71, 71, 85, 70>>
BadMagicBytes == <<71, 71, 77, 76>>

GGUF_VERSION_MIN == 2
GGUF_VERSION_MAX == 3

GGML_TYPE_F32 == 0
GGML_TYPE_F16 == 1

\* Metadata keys are abbreviated to two bytes: a prefix and a field.
\*   prefix  'a' the loader's own architecture ("siglip.", "dinov2.", ...),
\*           'v' "vision.", 'g' "general.", 'x' a key no loader knows
\*   field   'A' architecture, 'n' name, 'h' hidden_size,
\*           'H' num_attention_heads, 'd' num_heads, 'L' num_hidden_layers,
\*           'l' num_layers, 'I' intermediate_size, 'i' image_size,
\*           'p' patch_size, 'P' num_patches, 'm' image_mean, 's' image_std,
\*           'r' num_register_tokens
Key(prefix, field) == <<prefix, field>>
KeyArch(field) == Key(97, field)
KeyVision(field) == Key(118, field)
KeyGeneral(field) == Key(103, field)
KeyUnknown == Key(120, 117)

\* Tensor names are abbreviated likewise.  A top-level tensor is "t" and a
\* letter: 'w' patch_embed.weight, 'b' patch_embed.bias, 'e' pos_embed,
\* 'n' norm.weight, 'm' norm.bias, 'h' head.weight, 'g' head.bias.
\* A block tensor is the block prefix "b." ("siglip.blocks.", "v.blk."),
\* the decimal index, a dot and a two-letter component.
TopName(code) == <<116, code>>
BlockPrefix == <<98, 46>>
Digits(n) == IF n < 10 THEN <<48 + n>> ELSE <<48 + (n \div 10), 48 + (n % 10)>>
IndexText(n) == IF n < 0 THEN <<45>> \o Digits(0 - n) ELSE Digits(n)
BlockName(idx, comp) == BlockPrefix \o IndexText(idx) \o <<46>> \o comp

\* Components of a block: attn.q/k/v/out, mlp.fc1/fc2, ln1/ln2 (SigLIP)
\* and attn_q/k/v/out, ffn_gate/up/down, ln1/ln2 (Nomic), weight or bias.
CompQW == <<113, 119>>
CompQB == <<113, 98>>
CompGW == <<103, 119>>

\* ggml_nbytes of a tensor of an unquantised type.
RECURSIVE Product(_)
Product(ds) == IF ds = <<>> THEN 1 ELSE SatMul(Head(ds), Product(Tail(ds)))
GgmlTypeSize(type) == IF type = GGML_TYPE_F16 THEN 2 ELSE 4
GgmlNbytes(type, ne) == SatMul(Product(ne), GgmlTypeSize(type))

EncKV(kv) == EncStr(kv.key) \o LE(kv.val.t, 4) \o EncVal(kv.val)

EncTensorInfo(t) ==
    EncStr(t.name) \o LE(Len(t.dims), 4)
    \o Concat([i \in 1..Len(t.dims) |-> LE(t.dims[i], 8)])
    \o LE(t.type, 4) \o LE(t.offset, 8)

\* Tensors lie one after the other in the data section.
RECURSIVE WithOffsets(_, _)
WithOffsets(ts, off) ==
    IF ts = <<>> THEN <<>>
    ELSE <<[Head(ts) EXCEPT !.offset = off]>>
         \o WithOffsets(Tail(ts), off + GgmlNbytes(Head(ts).type, Head(ts).dims))

GGUF_ALIGNMENT == 32
AlignUp(n) == n + ((GGUF_ALIGNMENT - (n % GGUF_ALIGNMENT)) % GGUF_ALIGNMENT)

ArchHead(a) ==
    a.magic \o LE(a.version, 4) \o LE(Len(a.tensors), 8) \o LE(Len(a.kvs), 8)
    \o Concat([i \in 1..Len(a.kvs) |-> EncKV(a.kvs[i])])
    \o Concat([i \in 1..Len(a.tensors) |-> EncTensorInfo(a.tensors[i])])

ArchData(a) ==
    Concat([i \in 1..Len(a.tensors) |->
              [j \in 1..GgmlNbytes(a.tensors[i].type, a.tensors[i].dims) |-> 1]])

\* The file: the complete archive less the last a.cut bytes.
ArchBytes(a) ==
    LET head == ArchHead(a)
        full == head \o [i \in 1..(AlignUp(Len(head)) - Len(head)) |-> 0] \o ArchData(a)
    IN SubSeq(full, 1, Max(0, Len(full) - a.cut))

----------------------------------------------------------------------------
(* The environment of one load, and what a load returns *)

\* lucky: an allocation of 2^24 bytes or more succeeds, and a write through
\* a mistyped pointer does no harm.  g: what an uninitialised integer holds.
Envs == [lucky : BOOLEAN, g : Garbage]

IntRd(v, pos, crash) == [v |-> v, pos |-> pos, crash |-> crash]

\* n unchecked freads of w bytes each: a short one leaves the stream at EOF.
FreadN(f, pos, n, w) ==
    IF n = 0 THEN pos
    ELSE IF n < BigVal /\ pos + n * w <= Len(f) THEN pos + n * w
    ELSE Max(pos, Len(f))

\* A weight slot of the context: block index (-1 for a top-level tensor),
\* the slot's name, and the descriptor bound to it.
Bind(slots, idx, name, t) ==
    {s \in slots : ~(s.idx = idx /\ s.name = name)}
    \cup {[idx |-> idx, name |-> name, tensor |-> t]}

HasPrefix(name, pre) ==
    Len(name) >= Len(pre) /\ SubSeq(name, 1, Len(pre)) = pre

\* name.find('.', from): the first position at or after `from` (counted
\* from 0) that holds a dot, or -1 (npos).
FindDot(name, from) ==
    LET hits == {i \in (from + 1)..Len(name) : name[i] = 46} IN
    IF hits = {} THEN -1
    ELSE (CHOOSE i \in hits : \A j \in hits : i <= j) - 1

IsDigit(b) == b >= 48 /\ b <= 57

RECURSIVE DigitsValue(_, _)
DigitsValue(bs, acc) ==
    IF bs = <<>> \/ ~IsDigit(Head(bs)) THEN acc
    ELSE DigitsValue(Tail(bs), Min(BigVal, acc * 10 + (Head(bs) - 48)))

\* std::stoi: optional sign, then digits up to the first other character;
\* no digit at all throws std::invalid_argument, too many std::out_of_range.
Stoi(bs) ==
    LET neg == bs # <<>> /\ Head(bs) = 45
        pos == bs # <<>> /\ Head(bs) = 43
        ds == IF neg \/ pos THEN Tail(bs) ELSE bs
        v == DigitsValue(ds, 0)
    IN IF ds = <<>> \/ ~IsDigit(Head(ds)) \/ v >= BigVal
       THEN [ok |-> FALSE, n |-> 0]
       ELSE [ok |-> TRUE, n |-> IF neg THEN 0 - v ELSE v]

\* The descriptor every read past end of file yields: the vector's
\* value-initialised element.
EmptyInfo == [name |-> <<>>, n_dims |-> 0, dims |-> <<>>, type |-> 0, offset |-> 0]

\* One tensor descriptor, read with unchecked freads into a value-initialised
\* element (load_model_tensors, gguf_read_tensor_infos, nomic_load_tensors).
\* Only the first four dimensions are used afterwards.
ReadTensorInfo(f, pos, e) ==
    LET nm == gguf_read_string(f, pos, e.lucky)
        nd == Field(f, nm.pos, 4, 0)
        pd == FreadN(f, nd.pos, nd.v, 8)
        ty == Field(f, pd, 4, 0)
        off == Field(f, ty.pos, 8, 0)
    IN [info |-> [name |-> nm.s, n_dims |-> nd.v,
                  dims |-> [j \in 1..Min(nd.v, 4) |->
                              Field(f, FreadN(f, nd.pos, j - 1, 8), 8, 0).v],
                  type |-> ty.v, offset |-> off.v],
        pos |-> off.pos,
        crash |-> nm.crash \/ (nd.v >= BigVal /\ ~e.lucky)]

\* The descriptor loop.  Once the stream is at end of file every further
\* descriptor is EmptyInfo; `tail` counts them.
RECURSIVE ReadTensorInfos(_, _, _, _, _)
ReadTensorInfos(f, pos, n, acc, e) ==
    IF n = 0 THEN [infos |-> acc, pos |-> pos, crash |-> FALSE, tail |-> 0]
    ELSE IF pos >= Len(f)
    THEN [infos |-> acc, pos |-> pos, crash |-> FALSE, tail |-> n]
    ELSE LET r == ReadTensorInfo(f, pos, e) IN
         IF r.crash THEN [infos |-> acc, pos |-> r.pos, crash |-> TRUE, tail |-> 0]
         ELSE ReadTensorInfos(f, r.pos, n - 1, Append(acc, r.info), e)

\* ne[0..3] of ggml_new_tensor_4d: the first four dimensions, 1 beyond them.
Ne(info) == [j \in 1..4 |-> IF j <= Len(info.dims) THEN info.dims[j] ELSE 1]

----------------------------------------------------------------------------
(* Loading the tensors: load_model_tensors (siglip_core.cpp),              *)
(* siglip_load_tensors (siglip_gguf.cpp), nomic_load_tensors (nomic_cpp).  *)

\* The data section taken to begin where the descriptors end: the padding
\* forgotten.
DataStartUnpadded(pos) == pos

\* Position of the tensor data: the stream position rounded up to 32.
DataStart(pos) ==
    LET alignment == GGUF_ALIGNMENT
        padding == (alignment - (pos % alignment)) % alignment
    IN pos + padding

\* The upper bound off by one: block_idx <= num_hidden_layers.
InRangeInclusive(block_idx, num_hidden_layers) ==
    block_idx >= 0 /\ block_idx <= num_hidden_layers

\* block_idx >= 0 && block_idx < num_hidden_layers
InRange(block_idx, num_hidden_layers) ==
    block_idx >= 0 /\ block_idx < num_hidden_layers

\* The result of the fread of the tensor data not looked at.
ShortReadIgnored(f, at, bytes) == FALSE

\* fread(tensor->data, 1, bytes, f) != bytes, with the stream at `at`.
ShortRead(f, at, bytes) == at + bytes > Len(f)

\* ggml_new_tensor_4d aborts on a type it has no traits for, and on a
\* quantised type whose row is not a whole number of blocks; rows of the
\* model are shorter than a block.
TensorTypeOk(type) == type \in {GGML_TYPE_F32, GGML_TYPE_F16}

\* The slot a tensor name selects, or none.  cfg.top are the top-level
\* names the loader knows, cfg.comps the block components.
SlotOf(name, num_hidden_layers, cfg) ==
    IF name \in cfg.top THEN [bind |-> TRUE, idx |-> -1, name |-> name, crash |-> FALSE]
    ELSE IF HasPrefix(name, BlockPrefix)
    THEN LET dot1 == FindDot(name, Len(BlockPrefix)) IN
         IF dot1 = -1 THEN [bind |-> FALSE, idx |-> 0, name |-> <<>>, crash |-> FALSE]
         ELSE LET n == Stoi(SubSeq(name, Len(BlockPrefix) + 1, dot1))
                  component == SubSeq(name, dot1 + 2, Len(name))
              IN IF ~n.ok
                 THEN [bind |-> FALSE, idx |-> 0, name |-> <<>>, crash |-> TRUE]
                 ELSE [bind |-> InRange(n.n, num_hidden_layers) /\ component \in cfg.comps,
                       idx |-> n.n, name |-> component, crash |-> FALSE]
    ELSE [bind |-> FALSE, idx |-> 0, name |-> <<>>, crash |-> FALSE]

\* The loop over the descriptors: create the tensor, seek to its data,
\* read it, bind it.  st = [slots, ok, crash].
RECURSIVE LoadEach(_, _, _, _, _, _, _, _)
LoadEach(f, infos, i, data_start, hp, st, e, cfg) ==
    IF i > Len(infos) THEN st
    ELSE LET ti == infos[i]
             bytes == GgmlNbytes(ti.type, Ne(ti))
             at == FseekSet(data_start + ti.offset)
             slot == SlotOf(ti.name, hp.num_hidden_layers, cfg)
         IN IF ~TensorTypeOk(ti.type) \/ (bytes >= BigVal /\ ~e.lucky)
            THEN [st EXCEPT !.crash = TRUE]
            ELSE IF ShortRead(f, at, bytes)
            THEN [st EXCEPT !.ok = FALSE, !.log = "TruncatedTensor"]
            ELSE IF slot.crash THEN [st EXCEPT !.crash = TRUE]
            ELSE LoadEach(f, infos, i + 1, data_start, hp,
                          IF slot.bind
                          THEN [st EXCEPT !.slots = Bind(st.slots, slot.idx, slot.name, i)]
                          ELSE st,
                          e, cfg)

LtResult(ok, crash, ctx_data, backend, slots, err, log, infos, desc_end, data_start) ==
    [ok |-> ok, crash |-> crash, ctx_data |-> ctx_data, backend |-> backend,
     slots |-> slots, err |-> err, log |-> log, infos |-> infos,
     desc_end |-> desc_end, data_start |-> data_start]

\* cfg.backend: the loader also starts a CPU backend.  The arena and the
\* backend are taken to be available.
\* rd is what the descriptor loop returned.
LoadPayload(f, rd, n_tensors, hp, e, cfg) ==
    LET infos == IF rd.tail > 0 THEN Append(rd.infos, EmptyInfo) ELSE rd.infos
        data_start == DataStart(rd.pos)
        st == LoadEach(f, infos, 1, data_start, hp,
                       [slots |-> {}, ok |-> TRUE, crash |-> FALSE, log |-> ""],
                       e, cfg)
    IN IF (n_tensors >= BigVal /\ ~e.lucky) \/ rd.crash
       THEN LtResult(FALSE, TRUE, FALSE, FALSE, {}, "", "", infos, rd.pos, -1)
       ELSE IF hp.num_hidden_layers < 0 \/ (hp.num_hidden_layers >= BigVal /\ ~e.lucky)
       THEN LtResult(FALSE, TRUE, TRUE, cfg.backend, {}, "", "", infos, rd.pos, data_start)
       ELSE LtResult(st.ok /\ ~st.crash, st.crash, TRUE, cfg.backend,
                     IF st.ok /\ ~st.crash THEN st.slots ELSE {},
                     "", st.log, infos, rd.pos, data_start)

LoadTensors(f, pos, n_tensors, hp, e, cfg) ==
    LoadPayload(f, ReadTensorInfos(f, pos, n_tensors, <<>>, e), n_tensors, hp, e, cfg)

----------------------------------------------------------------------------
(* The loaders of vision/: dinov2_load, evaclip_init, nomic_load_model,    *)
(* openclip_load and nomic_init (nomic_cpp) are one text with different    *)
(* keys, defaults, value readers and tensor loaders; cfg holds these.      *)

\* The hyper-parameter a key sets, "" for a key the loader does not know.
FieldOf(key, keys) ==
    LET m == {p \in keys : p[1] = key} IN
    IF m = {} THEN "" ELSE (CHOOSE p \in m : TRUE)[2]

\* The skip routine of the loader.
SkipValue(f, pos, type, e, cfg) ==
    IF cfg.recursiveSkip
    THEN nomic_cpp_gguf_skip_value(f, pos, type, e.lucky, e.g)
    ELSE SeekSkip(f, pos, type, cfg.sizes)

\* <x>_gguf_read_value(f, type, &val, sizeof(val)) on an uninitialised val,
\* then (int)val.  Types in cfg.four are read as 4 bytes, types in cfg.wide
\* as 8; cfg.storeWide says whether an 8-byte value fits max_size.  A string
\* is assigned through the integer's address.
read_value_int(f, pos, type, e, cfg) ==
    IF type \in cfg.four
    THEN LET r == Fread(f, pos, 4) IN
         IntRd(IF r.ok THEN UInt(r.bs) ELSE e.g, r.pos, FALSE)
    ELSE IF type \in cfg.wide
    THEN LET r == Fread(f, pos, 8) IN
         IntRd(IF r.ok /\ cfg.storeWide THEN UInt(SubSeq(r.bs, 1, 4)) ELSE e.g,
               r.pos, FALSE)
    ELSE IF type = GGUF_TYPE_STRING
    THEN LET r == gguf_read_string(f, pos, e.lucky) IN
         IntRd(e.g, r.pos, r.crash \/ ~e.lucky)
    ELSE LET r == SkipValue(f, pos, type, e, cfg) IN IntRd(e.g, r.pos, r.crash)

\* <x>_gguf_read_value(f, type, &ctx->model_name, 0): only a string is stored.
read_value_name(f, pos, type, e, cfg) ==
    IF type \in cfg.four THEN IntRd(0, Fread(f, pos, 4).pos, FALSE)
    ELSE IF type \in cfg.wide THEN IntRd(0, Fread(f, pos, 8).pos, FALSE)
    ELSE IF type = GGUF_TYPE_STRING
    THEN LET r == gguf_read_string(f, pos, e.lucky) IN IntRd(0, r.pos, r.crash)
    ELSE LET r == SkipValue(f, pos, type, e, cfg) IN IntRd(0, r.pos, r.crash)

\* One turn of the metadata loop.  st = [pos, hp, crash, fail].
MetaEntry(f, st, e, cfg) ==
    LET k == gguf_read_string(f, st.pos, e.lucky)
        t == Field(f, k.pos, 4, e.g)
        field == FieldOf(k.s, cfg.keys)
    IN IF k.crash THEN [st EXCEPT !.pos = k.pos, !.crash = TRUE]
       ELSE IF ~t.ok /\ cfg.typeChecked THEN [st EXCEPT !.pos = t.pos, !.fail = TRUE]
       ELSE IF k.s = KeyGeneral(110)
       THEN LET r == read_value_name(f, t.pos, t.v, e, cfg) IN
            [st EXCEPT !.pos = r.pos, !.crash = r.crash]
       ELSE IF field # ""
       THEN LET r == read_value_int(f, t.pos, t.v, e, cfg) IN
            [st EXCEPT !.pos = r.pos, !.crash = r.crash, !.hp[field] = r.v]
       ELSE LET r == SkipValue(f, t.pos, t.v, e, cfg) IN
            [st EXCEPT !.pos = r.pos, !.crash = r.crash]

\* The metadata loop.  At end of file a turn reads the key "" and an
\* uninitialised type, and skips: the remaining turns are n seeks.
RECURSIVE MetaLoop(_, _, _, _, _)
MetaLoop(f, n, st, e, cfg) ==
    IF n = 0 \/ st.crash \/ st.fail THEN st
    ELSE IF st.pos >= Len(f)
    THEN IF cfg.typeChecked THEN [st EXCEPT !.fail = TRUE]
         ELSE LET one == SkipValue(f, st.pos, e.g, e, cfg).pos - st.pos IN
              [st EXCEPT !.pos = FseekCur(st.pos, SatMul(n, one))]
    ELSE MetaLoop(f, n - 1, MetaEntry(f, st, e, cfg), e, cfg)

\* <x>_load_tensors of dinov2, evaclip, nomic and openclip: the arena and
\* the backend are created, the descriptors are read and dropped, no tensor
\* data is read.  Only dinov2 checks the read of n_dims.
RECURSIVE SkimInfos(_, _, _, _, _)
SkimInfos(f, pos, n, e, cfg) ==
    IF n = 0 THEN [ok |-> TRUE, crash |-> FALSE, pos |-> pos]
    ELSE IF pos >= Len(f)
    THEN [ok |-> ~cfg.ndimsChecked, crash |-> FALSE, pos |-> pos]
    ELSE LET nm == gguf_read_string(f, pos, e.lucky)
             nd == Field(f, nm.pos, 4, e.g)
             pd == FreadN(f, nd.pos, nd.v, 8)
             after == Fread(f, Fread(f, pd, 4).pos, 8).pos
         IN IF nm.crash THEN [ok |-> FALSE, crash |-> TRUE, pos |-> nm.pos]
            ELSE IF ~nd.ok /\ cfg.ndimsChecked
            THEN [ok |-> FALSE, crash |-> FALSE, pos |-> nd.pos]
            ELSE SkimInfos(f, after, n - 1, e, cfg)

SkimTensors(f, pos, n_tensors, hp, e, cfg) ==
    LET r == SkimInfos(f, pos, n_tensors, e, cfg) IN
    IF hp.num_hidden_layers < 0 \/ (hp.num_hidden_layers >= BigVal /\ ~e.lucky)
    THEN LtResult(FALSE, TRUE, FALSE, FALSE, {}, "", "", <<>>, pos, -1)
    ELSE LtResult(r.ok, r.crash, TRUE, TRUE, {}, "", "", <<>>, r.pos, -1)

----------------------------------------------------------------------------
(* What each loader knows *)

WB == {119, 98}
SiglipComps == {<<c, x>> : c \in {113, 107, 118, 111, 49, 50, 120, 121}, x \in WB}
NomicComps ==
    {<<c, x>> : c \in {113, 107, 118, 111, 103, 117, 100, 120, 121}, x \in WB}
SiglipTop == {TopName(c) : c \in {119, 98, 101, 110, 109, 104, 103}}
NomicTop == {TopName(c) : c \in {119, 98, 101, 99, 110, 109}}

SiglipDefaults ==
    [hidden_size |-> 768, intermediate_size |-> 3072, num_attention_heads |-> 12,
     num_hidden_layers |-> 12, image_size |-> 224, patch_size |-> 16,
     num_patches |-> 196]
Dinov2Defaults ==
    [hidden_size |-> 768, intermediate_size |-> 3072, num_attention_heads |-> 12,
     num_hidden_layers |-> 12, image_size |-> 518, patch_size |-> 14,
     num_patches |-> 1369, num_register_tokens |-> 0]
EvaclipDefaults ==
    [hidden_size |-> 1024, intermediate_size |-> 4096, num_attention_heads |-> 16,
     num_hidden_layers |-> 24, image_size |-> 336, patch_size |-> 14,
     num_patches |-> 576]
NomicDefaults ==
    [hidden_size |-> 768, intermediate_size |-> 3072, num_attention_heads |-> 12,
     num_hidden_layers |-> 12, image_size |-> 384, patch_size |-> 14,
     num_patches |-> 729]
OpenclipDefaults ==
    [hidden_size |-> 1280, intermediate_size |-> 5120, num_attention_heads |-> 20,
     num_hidden_layers |-> 40, image_size |-> 224, patch_size |-> 14,
     num_patches |-> 256]

\* Keys under the loader's own prefix, and their "vision." aliases.
OwnKeys ==
    {<<KeyArch(104), "hidden_size">>, <<KeyArch(72), "num_attention_heads">>,
     <<KeyArch(76), "num_hidden_layers">>, <<KeyArch(105), "image_size">>,
     <<KeyArch(112), "patch_size">>}
VisionKeys ==
    {<<KeyVision(104), "hidden_size">>, <<KeyVision(100), "num_attention_heads">>,
     <<KeyVision(108), "num_hidden_layers">>, <<KeyVision(105), "image_size">>,
     <<KeyVision(112), "patch_size">>}

SiglipKeys ==
    OwnKeys \cup {<<KeyArch(73), "intermediate_size">>, <<KeyArch(80), "num_patches">>}

SiglipCfg == [top |-> SiglipTop, comps |-> SiglipComps, backend |-> FALSE]

Dinov2Cfg ==
    [keys |-> OwnKeys \cup VisionKeys
              \cup {<<KeyArch(73), "intermediate_size">>,
                    <<KeyArch(114), "num_register_tokens">>},
     defaults |-> Dinov2Defaults, four |-> {4}, wide |-> {6, 10}, storeWide |-> TRUE,
     sizes |-> Dinov2SkipSizes, recursiveSkip |-> FALSE, typeChecked |-> TRUE,
     ndimsChecked |-> TRUE, payload |-> FALSE, top |-> {}, comps |-> {},
     backend |-> TRUE]

EvaclipCfg ==
    [keys |-> OwnKeys \cup VisionKeys \cup {<<KeyArch(73), "intermediate_size">>},
     defaults |-> EvaclipDefaults, four |-> {4}, wide |-> {6, 10}, storeWide |-> TRUE,
     sizes |-> Dinov2SkipSizes, recursiveSkip |-> FALSE, typeChecked |-> FALSE,
     ndimsChecked |-> FALSE, payload |-> FALSE, top |-> {}, comps |-> {},
     backend |-> TRUE]

NomicCfg ==
    [keys |-> OwnKeys \cup VisionKeys,
     defaults |-> NomicDefaults, four |-> {4}, wide |-> {6}, storeWide |-> TRUE,
     sizes |-> NomicSkipSizes, recursiveSkip |-> FALSE, typeChecked |-> FALSE,
     ndimsChecked |-> FALSE, payload |-> FALSE, top |-> {}, comps |-> {},
     backend |-> TRUE]

OpenclipCfg ==
    [keys |-> OwnKeys \cup VisionKeys
              \cup {<<KeyArch(73), "intermediate_size">>,
                    <<KeyVision(73), "intermediate_size">>},
     defaults |-> OpenclipDefaults, four |-> {4}, wide |-> {6}, storeWide |-> TRUE,
     sizes |-> NomicSkipSizes, recursiveSkip |-> FALSE, typeChecked |-> FALSE,
     ndimsChecked |-> FALSE, payload |-> FALSE, top |-> {}, comps |-> {},
     backend |-> TRUE]

NomicCppCfg ==
    [keys |-> OwnKeys,
     defaults |-> NomicDefaults, four |-> {4, 5, 6}, wide |-> {10, 11, 12},
     storeWide |-> FALSE,
     sizes |-> SiglipSizes, recursiveSkip |-> TRUE, typeChecked |-> FALSE,
     ndimsChecked |-> FALSE, payload |-> TRUE, top |-> NomicTop, comps |-> NomicComps,
     backend |-> TRUE]

----------------------------------------------------------------------------
(* The load functions *)

\* The magic read and not compared.
MagicUnchecked(bs) == TRUE

\* magic == GGUF_MAGIC
MagicOk(bs) == bs = MagicBytes

Outcome(ph, c, r, err, tr) ==
    [phase |-> ph, ctx |-> c, res |-> r, last_error |-> err, trace |-> tr]

BlankTrace ==
    [ctx_created |-> FALSE, warned |-> FALSE, meta_end |-> -1, desc_end |-> -1,
     data_start |-> -1, infos |-> <<>>, log |-> ""]

Crashed(tr) == Outcome("crashed", NoCtx, NoRes, "", tr)

\* The header after the magic: version, n_tensors, n_kv, none of them checked.
ReadCounts(f, pos, e) ==
    LET v == Field(f, pos, 4, e.g)
        nt == Field(f, v.pos, 8, e.g)
        nk == Field(f, nt.pos, 8, e.g)
    IN [version |-> v.v, n_tensors |-> nt.v, n_kv |-> nk.v, pos |-> nk.pos]

\* What is left once the load has returned after its tensor loader did:
\* on failure `delete ctx; fclose(f)`, and the context has no destructor.
AfterTensors(lt, hp, err, tr) ==
    LET tr2 == [tr EXCEPT !.desc_end = lt.desc_end, !.data_start = lt.data_start,
                          !.infos = lt.infos, !.log = lt.log]
    IN IF lt.crash THEN Crashed(tr2)
       ELSE IF ~lt.ok
       THEN Outcome("failed", NoCtx,
                    [ctxObj |-> FALSE, ctx_data |-> lt.ctx_data,
                     backend |-> lt.backend, fileOpen |-> FALSE],
                    IF lt.err # "" THEN lt.err ELSE err, tr2)
       ELSE Outcome("loaded",
                    [valid |-> TRUE, hp |-> hp, slots |-> lt.slots],
                    [ctxObj |-> TRUE, ctx_data |-> lt.ctx_data,
                     backend |-> lt.backend, fileOpen |-> FALSE],
                    err, tr2)

\* dinov2_load, evaclip_init, nomic_load_model, openclip_load, nomic_init.
\* err is the thread's last error before the call.
\* m is the state the metadata loop ended in.
FamilyAfterMeta(f, m, n_tensors, e, cfg, err) ==
    LET tr == [BlankTrace EXCEPT !.ctx_created = TRUE, !.meta_end = m.pos]
        grid == m.hp.image_size \div m.hp.patch_size
        hp == [m.hp EXCEPT !.num_patches = SatMul(grid, grid)]
    IN IF m.crash THEN Crashed(tr)
       ELSE IF m.fail THEN Outcome("failed", NoCtx, NoRes, err, tr)
       ELSE IF m.hp.patch_size = 0 THEN Crashed(tr)
       ELSE AfterTensors(IF cfg.payload
                         THEN LoadTensors(f, m.pos, n_tensors, hp, e, cfg)
                         ELSE SkimTensors(f, m.pos, n_tensors, hp, e, cfg),
                         hp, err, tr)

FamilyLoad(f, e, cfg, err) ==
    LET magic == Fread(f, 0, 4)
        h == ReadCounts(f, magic.pos, e)
    IN IF ~magic.ok \/ ~MagicOk(magic.bs)
       THEN Outcome("failed", NoCtx, NoRes, "InvalidMagic", BlankTrace)
       ELSE FamilyAfterMeta(f,
                            MetaLoop(f, h.n_kv,
                                     [pos |-> h.pos, hp |-> cfg.defaults,
                                      crash |-> FALSE, fail |-> FALSE], e, cfg),
                            h.n_tensors, e, cfg, err)

dinov2_load(f, e, err) == FamilyLoad(f, e, Dinov2Cfg, err)
evaclip_init(f, e, err) == FamilyLoad(f, e, EvaclipCfg, err)
nomic_load_model(f, e, err) == FamilyLoad(f, e, NomicCfg, err)
openclip_load(f, e, err) == FamilyLoad(f, e, OpenclipCfg, err)
nomic_init(f, e, err) == FamilyLoad(f, e, NomicCppCfg, err)

\* read_gguf_metadata_value(f, type, &val, sizeof(val)) of siglip_core.cpp on
\* an uninitialised int64_t val, then static_cast<int>(val): a 1- or 2-byte
\* value overwrites the low bytes only; a string is assigned through the
\* integer's address; any other type reads nothing.
siglip_read_int(f, pos, type, e) ==
    IF TypeWidth(type) \in {1, 2}
    THEN LET r == Fread(f, pos, TypeWidth(type)) IN
         IF r.ok
         THEN IntRd(IF e.g = 0 THEN UInt(r.bs)
                    ELSE UInt(r.bs) + (IF TypeWidth(type) = 1 THEN 256 ELSE 65536) * e.g,
                    r.pos, FALSE)
         ELSE IntRd(Partial(f, pos, e.g), r.pos, FALSE)
    ELSE IF TypeWidth(type) \in {4, 8}
    THEN LET r == Fread(f, pos, TypeWidth(type)) IN
         IntRd(IF r.ok THEN UInt(SubSeq(r.bs, 1, 4)) ELSE Partial(f, pos, e.g),
               r.pos, FALSE)
    ELSE IF type = GGUF_TYPE_STRING
    THEN LET r == gguf_read_string(f, pos, e.lucky) IN
         IntRd(e.g, r.pos, r.crash \/ ~e.lucky)
    ELSE IntRd(e.g, pos, FALSE)

\* read_gguf_metadata_value(f, type, &str, 0) on a std::string: a value of a
\* fixed-width type is written over the string object.
siglip_read_name(f, pos, type, e) ==
    IF TypeWidth(type) > 0
    THEN LET r == Fread(f, pos, TypeWidth(type)) IN IntRd(0, r.pos, r.ok /\ ~e.lucky)
    ELSE IF type = GGUF_TYPE_STRING
    THEN LET r == gguf_read_string(f, pos, e.lucky) IN IntRd(0, r.pos, r.crash)
    ELSE IntRd(0, pos, FALSE)

\* One turn of the metadata loop of siglip_load_model_with_progress.
SiglipEntry(f, st, e) ==
    LET k == gguf_read_string(f, st.pos, e.lucky)
        t == Field(f, k.pos, 4, e.g)
        field == FieldOf(k.s, SiglipKeys)
    IN IF k.crash THEN [st EXCEPT !.pos = k.pos, !.crash = TRUE]
       ELSE IF k.s \in {KeyGeneral(65), KeyGeneral(110)}
       THEN LET r == siglip_read_name(f, t.pos, t.v, e) IN
            [st EXCEPT !.pos = r.pos, !.crash = r.crash]
       ELSE IF field # ""
       THEN LET r == siglip_read_int(f, t.pos, t.v, e) IN
            [st EXCEPT !.pos = r.pos, !.crash = r.crash, !.hp[field] = r.v]
       ELSE IF k.s \in {KeyArch(109), KeyArch(115)}
       THEN LET arr_type == Field(f, t.pos, 4, e.g)
                arr_len == Field(f, arr_type.pos, 8, e.g)
            IN [st EXCEPT !.pos = FreadN(f, arr_len.pos, Min(arr_len.v, 3), 4)]
       ELSE LET r == siglip_skip_unknown(f, t.pos, t.v, e.lucky) IN
            [st EXCEPT !.pos = r.pos, !.crash = r.crash]

\* The loop; at end of file a turn changes nothing.
RECURSIVE SiglipMeta(_, _, _, _)
SiglipMeta(f, n, st, e) ==
    IF n = 0 \/ st.crash \/ st.pos >= Len(f) THEN st
    ELSE SiglipMeta(f, n - 1, SiglipEntry(f, st, e), e)

\* siglip_load_model_with_progress.  num_patches is what the defaults or the
\* key "siglip.num_patches" say: nothing recomputes it.
\* The load once the metadata loop has ended in state m; tr is the trace
\* so far.
SiglipAfterMeta(f, m, n_tensors, e, err, tr) ==
    IF m.crash THEN Crashed([tr EXCEPT !.meta_end = m.pos])
    ELSE AfterTensors(LoadTensors(f, m.pos, n_tensors, m.hp, e, SiglipCfg),
                      m.hp, err, [tr EXCEPT !.meta_end = m.pos])

siglip_load_model(f, e, err) ==
    LET magic == Fread(f, 0, 4)
        h == ReadCounts(f, magic.pos, e)
    IN IF ~magic.ok \/ ~MagicOk(magic.bs)
       THEN Outcome("failed", NoCtx, NoRes, "InvalidMagic", BlankTrace)
       ELSE SiglipAfterMeta(f,
                            SiglipMeta(f, h.n_kv,
                                       [pos |-> h.pos, hp |-> SiglipDefaults,
                                        crash |-> FALSE, fail |-> FALSE], e),
                            h.n_tensors, e, err,
                            [BlankTrace EXCEPT
                                !.ctx_created = TRUE,
                                !.warned = h.version < GGUF_VERSION_MIN
                                           \/ h.version > GGUF_VERSION_MAX])

\* gguf_validate_header.
gguf_validate_header(f) ==
    LET magic == Fread(f, 0, 4)
        version == Fread(f, magic.pos, 4)
        n_tensors == Fread(f, version.pos, 8)
        n_kv == Fread(f, n_tensors.pos, 8)
    IN [ok |-> /\ magic.ok /\ MagicOk(magic.bs)
               /\ version.ok
               /\ ~(UInt(version.bs) < GGUF_VERSION_MIN \/ UInt(version.bs) > GGUF_VERSION_MAX)
               /\ n_tensors.ok /\ n_kv.ok,
        n_tensors |-> UInt(n_tensors.bs), n_kv |-> UInt(n_kv.bs), pos |-> n_kv.pos]

\* The metadata entries passed over with gguf_read_string and
\* gguf_skip_metadata_value.
RECURSIVE GgufSkipAll(_, _, _, _)
GgufSkipAll(f, n, st, e) ==
    IF n = 0 \/ st.crash \/ st.pos >= Len(f) THEN st
    ELSE LET k == gguf_read_string(f, st.pos, e.lucky)
             t == Field(f, k.pos, 4, e.g)
             r == gguf_skip_metadata_value(f, t.pos, t.v, e.lucky)
         IN GgufSkipAll(f, n - 1,
                        [st EXCEPT !.pos = r.pos, !.crash = k.crash \/ r.crash], e)

\* The helpers of siglip_gguf.cpp in the order their comments give: the
\* header is validated, the metadata passed over, and siglip_load_tensors
\* called on a context holding the default hyper-parameters.
siglip_gguf_load(f, e, err) ==
    LET h == gguf_validate_header(f) IN
    IF ~h.ok THEN Outcome("failed", NoCtx, NoRes, err, BlankTrace)
    ELSE SiglipAfterMeta(f,
                         GgufSkipAll(f, h.n_kv,
                                     [pos |-> h.pos, hp |-> SiglipDefaults,
                                      crash |-> FALSE, fail |-> FALSE], e),
                         h.n_tensors, e, err, BlankTrace)

----------------------------------------------------------------------------
(* Encoding an image: dinov2_encode, evaclip_encode_image, nomic_encode *)

DINOV2_OUTPUT_CLS == 0
DINOV2_OUTPUT_PATCHES == 1
DINOV2_OUTPUT_MEAN == 2
OutputModes == {DINOV2_OUTPUT_CLS, DINOV2_OUTPUT_PATCHES, DINOV2_OUTPUT_MEAN}

\* (int)sqrtf((float)n) for the small n of the model.
Isqrt(n) == CHOOSE r \in 0..n : r * r <= n /\ (r + 1) * (r + 1) > n

\* side * side * channels != (int)image_len, with side estimated from the
\* length of the raw RGB data.
BadImageSize(image_len) ==
    LET channels == 3
        side == Isqrt(image_len \div channels)
    IN side * side * channels # image_len

\* a * b in int arithmetic.  A product beyond INT_MAX is undefined: the
\* build leaves some value g (wrap-around leaves 0 for 65536 * 65536).  A
\* factor saturated at BigVal keeps the product at BigVal.
IntMul(a, b, g) ==
    LET x == IF a < 0 THEN 0 - a ELSE a
        y == IF b < 0 THEN 0 - b ELSE b
    IN IF x = 0 \/ y = 0 THEN 0
       ELSE IF x >= BigVal \/ y >= BigVal THEN BigVal
       ELSE IF x > 2147483647 \div y THEN g
       ELSE IF (a < 0) # (b < 0) THEN 0 - (x * y)
       ELSE x * y

\* required_size: the floats the caller's buffer must hold for the mode.
RequiredSize(hp, mode, g) ==
    IF mode \in {DINOV2_OUTPUT_CLS, DINOV2_OUTPUT_MEAN} THEN hp.hidden_size
    ELSE IF mode = DINOV2_OUTPUT_PATCHES THEN IntMul(hp.num_patches, hp.hidden_size, g)
    ELSE 0

\* The floats forward_pass writes for the mode, saturated at BigVal.
ForwardFloats(hp, mode) ==
    IF mode = DINOV2_OUTPUT_PATCHES
    THEN SatMul(Max(hp.num_patches, 0), Max(hp.hidden_size, 0))
    ELSE Max(hp.hidden_size, 0)

\* max_dim < required_size
BufferTooSmall(max_dim, required_size) == max_dim < required_size

\* What a call leaves: the return value, the error it set ("" for none),
\* how many floats of the caller's buffer were written, whether the image
\* was preprocessed and the forward pass run, whether the process died.
EncRes(ret, err, written, computed, crash) ==
    [ret |-> ret, err |-> err, written |-> written, computed |-> computed,
     crash |-> crash]

\* preprocess_image reads data[-1] and around when the image has no pixels,
\* and forward_pass writes `written` floats into a buffer of max_dim; then
\* the call returns.
Compute(image_len, max_dim, lucky, ret, written) ==
    IF (image_len = 0 \/ written > max_dim) /\ ~lucky
    THEN EncRes(0, "", 0, TRUE, TRUE)
    ELSE EncRes(ret, "", written, TRUE, FALSE)

dinov2_encode(c, image_len, max_dim, mode, e) ==
    IF ~c.valid THEN EncRes(-1, "InvalidArgument", 0, FALSE, FALSE)
    ELSE LET required_size == RequiredSize(c.hp, mode, e.g) IN
         IF BufferTooSmall(max_dim, required_size)
         THEN EncRes(-1, "BufferTooSmall", 0, FALSE, FALSE)
         ELSE IF BadImageSize(image_len)
         THEN EncRes(-1, "InvalidImage", 0, FALSE, FALSE)
         ELSE Compute(image_len, max_dim, e.lucky, required_size,
                      ForwardFloats(c.hp, mode))

nomic_encode(c, image_len, max_dim, lucky) ==
    IF ~c.valid THEN EncRes(-1, "InvalidArgument", 0, FALSE, FALSE)
    ELSE IF BufferTooSmall(max_dim, c.hp.hidden_size)
    THEN EncRes(-1, "BufferTooSmall", 0, FALSE, FALSE)
    ELSE IF BadImageSize(image_len)
    THEN EncRes(-1, "InvalidImage", 0, FALSE, FALSE)
    ELSE Compute(image_len, max_dim, lucky, c.hp.hidden_size, Max(c.hp.hidden_size, 0))

evaclip_encode_image(c, image_size, embedding_dim, lucky) ==
    IF ~c.valid THEN EncRes(-1, "NullContext", 0, FALSE, FALSE)
    ELSE IF image_size = 0 THEN EncRes(-2, "EmptyImage", 0, FALSE, FALSE)
    ELSE IF BufferTooSmall(embedding_dim, c.hp.hidden_size)
    THEN EncRes(-5, "BufferTooSmall", 0, FALSE, FALSE)
    ELSE IF BadImageSize(image_size)
    THEN EncRes(-3, "InvalidImage", 0, FALSE, FALSE)
    ELSE Compute(image_size, embedding_dim, lucky, 0, Max(c.hp.hidden_size, 0))

----------------------------------------------------------------------------
(* The archives the loaders are run on *)

MaxCut == 1          \* most bytes missing from the end of the file

ImageSizes == {8}
PatchSizes == {4}
DeclaredPatches == {9}
LayerCounts == {2}
BlockIdxs == {1, 2, -1}
Versions == {1, 2, 3, 4}
ImageLens == {0, 3, 4}

U32(n) == VScalar(GGUF_TYPE_UINT32, n)
Entry(key, val) == [key |-> key, val |-> val]
Opt(present, x) == IF present THEN <<x>> ELSE <<>>

\* Metadata: each hyper-parameter key is absent (0) or present with a
\* value; an unknown key with a string or an array value may follow.
KvChoices ==
    [image : {0} \cup ImageSizes, patch : {0} \cup PatchSizes,
     patches : {0} \cup DeclaredPatches, layers : {0} \cup LayerCounts,
     hidden : {0}, extra : {"none", "str", "arr"}]

KvsOf(c) ==
    Opt(c.image # 0, Entry(KeyArch(105), U32(c.image)))
    \o Opt(c.patch # 0, Entry(KeyArch(112), U32(c.patch)))
    \o Opt(c.patches # 0, Entry(KeyArch(80), U32(c.patches)))
    \o Opt(c.layers # 0, Entry(KeyArch(76), U32(c.layers)))
    \o Opt(c.hidden # 0, Entry(KeyArch(104), U32(c.hidden)))
    \o Opt(c.extra = "str", Entry(KeyUnknown, VString(StrOfLen(1))))
    \o Opt(c.extra = "arr", Entry(KeyUnknown, VArray(GGUF_TYPE_UINT32, <<U32(1)>>)))

\* Tensors: a top-level one and one of a block.
TensorChoices ==
    {[top |-> t, blk |-> FALSE, idx |-> 0] : t \in BOOLEAN}
    \cup {[top |-> t, blk |-> TRUE, idx |-> i] : t \in BOOLEAN, i \in BlockIdxs}

TensorsOf(c) ==
    WithOffsets(
        Opt(c.top, [name |-> TopName(119), dims |-> <<2>>, type |-> GGML_TYPE_F32,
                    offset |-> 0])
        \o Opt(c.blk,
               [name |-> BlockName(c.idx, CompQW),
                dims |-> <<1, 2>>, type |-> GGML_TYPE_F16, offset |-> 0]),
        0)

Arch(magic, version, kc, tc, cut, torn) ==
    [magic |-> magic, version |-> version, kvs |-> KvsOf(kc), tensors |-> TensorsOf(tc),
     cut |-> cut, torn |-> torn]

PlainKv ==
    [image |-> 0, patch |-> 0, patches |-> 0, layers |-> 0, hidden |-> 0,
     extra |-> "none"]

\* A model of 256 x 256 patches of one pixel and 65536 features.
WideKv == [PlainKv EXCEPT !.image = 256, !.patch = 1, !.hidden = 65536]

\* Well-formed archives, whole or short of their last bytes; archives torn
\* inside the header part; archives with another magic or version;
\* archives of a wide model.
Archives ==
    {Arch(MagicBytes, GGUF_VERSION_MAX, kc, tc, cut, FALSE) :
        kc \in KvChoices, tc \in TensorChoices, cut \in 0..MaxCut}
    \cup {Arch(MagicBytes, GGUF_VERSION_MAX, kc, tc, 0, TRUE) :
            kc \in KvChoices, tc \in TensorChoices}
    \cup {Arch(m, v, PlainKv, tc, 0, FALSE) :
            m \in {MagicBytes, BadMagicBytes}, v \in Versions, tc \in TensorChoices}
    \cup {Arch(MagicBytes, GGUF_VERSION_MAX, WideKv, tc, 0, FALSE) :
            tc \in TensorChoices}

\* The bytes of the file.
FileOf(a) ==
    IF a.torn THEN SubSeq(ArchHead(a), 1, Len(ArchHead(a)) - 1) ELSE ArchBytes(a)

Loaders ==
    {"siglip", "siglip_gguf", "dinov2", "evaclip", "nomic", "nomic_cpp", "openclip"}

Init ==
    /\ variant \in Loaders
    /\ arch \in Archives
    /\ file = FileOf(arch)
    /\ phase = "init"
    /\ ctx = NoCtx
    /\ res = NoRes
    /\ last_error = ""
    /\ trace = BlankTrace
    /\ enc = NoEnc
    /\ probe = NoProbe

----------------------------------------------------------------------------
(* Actions: one call of a load function, one call of an encode function *)

Loaded(o) ==
    /\ phase' = o.phase
    /\ ctx' = o.ctx
    /\ res' = o.res
    /\ last_error' = o.last_error
    /\ trace' = o.trace
    /\ UNCHANGED <<variant, file, arch, enc, probe>>

LoadSiglip ==
    /\ phase = "init" /\ variant = "siglip"
    /\ \E e \in Envs : Loaded(siglip_load_model(file, e, last_error))

LoadSiglipGguf ==
    /\ phase = "init" /\ variant = "siglip_gguf"
    /\ \E e \in Envs : Loaded(siglip_gguf_load(file, e, last_error))

LoadDinov2 ==
    /\ phase = "init" /\ variant = "dinov2"
    /\ \E e \in Envs : Loaded(dinov2_load(file, e, last_error))

LoadEvaclip ==
    /\ phase = "init" /\ variant = "evaclip"
    /\ \E e \in Envs : Loaded(evaclip_init(file, e, last_error))

LoadNomic ==
    /\ phase = "init" /\ variant = "nomic"
    /\ \E e \in Envs : Loaded(nomic_load_model(file, e, last_error))

LoadNomicCpp ==
    /\ phase = "init" /\ variant = "nomic_cpp"
    /\ \E e \in Envs : Loaded(nomic_init(file, e, last_error))

LoadOpenclip ==
    /\ phase = "init" /\ variant = "openclip"
    /\ \E e \in Envs : Loaded(openclip_load(file, e, last_error))

\* The buffer sizes tried: one float short of what is needed, and exactly
\* enough.  A failed load has returned no context: the call is made with
\* a null one.
MaxDims(required_size) == {required_size - 1, required_size}

\* For dinov2: a buffer for one token, and one for every patch when their
\* number is an int.
Dinov2MaxDims(hp) ==
    MaxDims(hp.hidden_size)
    \cup (IF IntMul(hp.num_patches, hp.hidden_size, 0) > 0
          THEN MaxDims(IntMul(hp.num_patches, hp.hidden_size, 0)) ELSE {})

Encoded(image_len, max_dim, mode, r) ==
    /\ enc' = [called |-> TRUE, image_len |-> image_len, max_dim |-> max_dim,
               mode |-> mode, ret |-> r.ret, written |-> r.written,
               computed |-> r.computed]
    /\ last_error' = IF r.err # "" THEN r.err ELSE last_error
    /\ phase' = IF r.crash THEN "crashed" ELSE phase
    /\ UNCHANGED <<variant, file, arch, ctx, res, trace, probe>>

EncodeDinov2 ==
    /\ phase \in {"loaded", "failed"} /\ variant = "dinov2" /\ ~enc.called
    /\ \E image_len \in ImageLens, mode \in OutputModes, e \in Envs :
         \E max_dim \in (IF ctx.valid THEN Dinov2MaxDims(ctx.hp) ELSE MaxDims(1)) :
            Encoded(image_len, max_dim, mode,
                    dinov2_encode(ctx, image_len, max_dim, mode, e))

EncodeEvaclip ==
    /\ phase \in {"loaded", "failed"} /\ variant = "evaclip" /\ ~enc.called
    /\ \E image_len \in ImageLens, lucky \in BOOLEAN :
         \E max_dim \in MaxDims(IF ctx.valid THEN ctx.hp.hidden_size ELSE 1) :
            Encoded(image_len, max_dim, DINOV2_OUTPUT_CLS,
                    evaclip_encode_image(ctx, image_len, max_dim, lucky))

EncodeNomic ==
    /\ phase \in {"loaded", "failed"} /\ variant = "nomic" /\ ~enc.called
    /\ \E image_len \in ImageLens, lucky \in BOOLEAN :
         \E max_dim \in MaxDims(IF ctx.valid THEN ctx.hp.hidden_size ELSE 1) :
            Encoded(image_len, max_dim, DINOV2_OUTPUT_CLS,
                    nomic_encode(ctx, image_len, max_dim, lucky))

Next ==
    \/ LoadSiglip
    \/ LoadSiglipGguf
    \/ LoadDinov2
    \/ LoadEvaclip
    \/ LoadNomic
    \/ LoadNomicCpp
    \/ LoadOpenclip
    \/ EncodeDinov2
    \/ EncodeEvaclip
    \/ EncodeNomic

Spec == Init /\ [][Next]_vars

----------------------------------------------------------------------------
(* Properties of the load functions *)

\* The load function has returned and nothing was called since.
JustLoaded == phase \in {"loaded", "failed"} /\ ~enc.called

\* The archive is complete and its header says GGUF.
WholeArchive == arch.magic = MagicBytes /\ arch.cut = 0 /\ ~arch.torn

\* C3: after the hyper-parameters are resolved num_patches equals
\* (image_size / patch_size)^2 of the resolved image_size and patch_size
\* whenever patch_size divides image_size, whatever num_patches the
\* metadata of the archive declares.
C3_NumPatchesIsGridSquared ==
    (ctx.valid /\ ctx.hp.patch_size > 0
       /\ ctx.hp.image_size % ctx.hp.patch_size = 0) =>
        ctx.hp.num_patches =
            SatMul(ctx.hp.image_size \div ctx.hp.patch_size,
                   ctx.hp.image_size \div ctx.hp.patch_size)

\* C4: for every archive the computed start of the tensor data is a
\* multiple of 32 and not before the stream position right after the last
\* tensor descriptor.
C4_DataStartAligned ==
    trace.data_start >= 0 =>
        /\ trace.data_start % 32 = 0
        /\ trace.data_start >= trace.desc_end

\* A load whose descriptors end off the boundary, so that padding is due.
C4_Witness ==
    /\ phase = "loaded"
    /\ Len(trace.infos) > 0
    /\ trace.desc_end % 32 # 0
    /\ trace.data_start > trace.desc_end

\* C5: an archive whose magic matches and whose version is outside 2-3 is
\* not rejected: the reader warns and the load goes on to return a context.
C5_VersionOnlyWarns ==
    (phase # "init" /\ WholeArchive /\ arch.version \notin 2..3) => ctx.valid

\* C6: when the first four bytes of the archive are not the GGUF magic the
\* load fails with InvalidMagic, returns no context and leaves no context
\* object allocated.  gguf_validate_header has no error channel: it
\* rejects by its return value.
C6_BadMagicRejected ==
    (JustLoaded /\ arch.magic # MagicBytes) =>
        /\ phase = "failed"
        /\ ~ctx.valid
        /\ ~res.ctxObj
        /\ variant # "siglip_gguf" => last_error = "InvalidMagic"

\* A load function that has turned down an archive of another format.
C6_Witness ==
    /\ JustLoaded
    /\ variant \in {"siglip", "dinov2"}
    /\ arch.magic = BadMagicBytes
    /\ Len(arch.tensors) > 0
    /\ last_error = "InvalidMagic"

\* The loaders that read the tensor data into the arena.
PayloadLoaders == {"siglip", "siglip_gguf", "nomic_cpp"}

\* Descriptor i, as the loader parsed it, declares more bytes than the file
\* holds from data_start + offset on.
DeclaredBeyondFile(i) ==
    LET ti == trace.infos[i] IN
    trace.data_start + ti.offset + GgmlNbytes(ti.type, Ne(ti)) > Len(file)

C8_FailureReleasesAll ==
    (JustLoaded /\ phase = "failed" /\ trace.ctx_created) =>
        /\ ~res.ctx_data
        /\ ~res.backend
        /\ ~res.ctxObj
        /\ ~res.fileOpen

\* The parsed block index of descriptor i, when its name is that of a
\* block tensor with a numeric index.
BlockIndexOf(i) ==
    LET name == trace.infos[i].name
        dot1 == FindDot(name, Len(BlockPrefix))
    IN IF HasPrefix(name, BlockPrefix) /\ dot1 # -1
       THEN Stoi(SubSeq(name, Len(BlockPrefix) + 1, dot1))
       ELSE [ok |-> FALSE, n |-> 0]

\* Descriptor i names a block whose index is not in [0, num_hidden_layers).
OutOfRange(i) ==
    /\ BlockIndexOf(i).ok
    /\ ~(0 <= BlockIndexOf(i).n /\ BlockIndexOf(i).n < ctx.hp.num_hidden_layers)

\* C9: a block tensor whose parsed index is not in [0, num_hidden_layers)
\* is dropped silently: no weight slot is bound to it or to a block of that
\* index, and the load of a complete archive of a supported version that
\* holds it still succeeds.
C9_OutOfRangeBlockDropped ==
    /\ ctx.valid =>
         \A s \in ctx.slots :
            /\ ~OutOfRange(s.tensor)
            /\ s.idx # -1 => (0 <= s.idx /\ s.idx < ctx.hp.num_hidden_layers)
    /\ (phase # "init" /\ variant \in PayloadLoaders /\ WholeArchive
          /\ arch.version \in GGUF_VERSION_MIN..GGUF_VERSION_MAX
          /\ arch.kvs \in {KvsOf([PlainKv EXCEPT !.layers = n]) : n \in {0} \cup LayerCounts}
          /\ \E i \in 1..Len(arch.tensors) :
                arch.tensors[i].name \in {BlockName(j, CompQW) : j \in {2, -1}})
       => phase = "loaded" /\ trace.log = ""

\* A load that succeeded on an archive with a tensor of block 2 of 2, or of
\* block -1, next to one that was bound.
C9_Witness ==
    /\ phase = "loaded"
    /\ variant \in {"siglip", "nomic_cpp"}
    /\ \E i \in 1..Len(trace.infos) : OutOfRange(i)
    /\ ctx.slots # {}

----------------------------------------------------------------------------
(* Properties of the encode functions *)

\* The caller's buffer holds fewer floats than the call needs: hidden_size
\* of them, or num_patches * hidden_size for the patch tokens of dinov2.
BufferShort ==
    IF variant = "dinov2" /\ enc.mode = DINOV2_OUTPUT_PATCHES
    THEN /\ ctx.hp.hidden_size > 0
         /\ enc.max_dim \div ctx.hp.hidden_size < ctx.hp.num_patches
    ELSE enc.max_dim < ctx.hp.hidden_size

\* C10: when the caller's output buffer is smaller than the pooling mode
\* requires, encode reports BufferTooSmall before anything is computed and
\* writes nothing to the buffer.
C10_BufferTooSmallReported ==
    (enc.called /\ ctx.valid /\ BufferShort) =>
        /\ last_error = "BufferTooSmall"
        /\ enc.ret < 0
        /\ ~enc.computed
        /\ enc.written = 0

----------------------------------------------------------------------------
(* Encoding a batch: siglip_encode_batch (siglip_inference.cpp),           *)
(* evaclip_encode_batch, openclip_encode_batch.  A float is modelled by an *)
(* integer: 0 for 0.0f, Junk for what a buffer held before the call, and   *)
(* Placeholder(i) for the i-th float the placeholder forward pass writes   *)
(* (its positive scale and the division by the norm left out).             *)

MaxBatch == 3        \* most images in a batch
BatchHidden == 2     \* hidden_size of the model the batch is encoded with

Junk == 999

\* output[i] = 0.01f * ((i % 100) - 50) / 50.0f
Placeholder(i) == (i % 100) - 50

\* openclip_encode: the checks of nomic_encode under another name.
openclip_encode(c, image_len, max_dim, lucky) ==
    IF ~c.valid THEN EncRes(-1, "InvalidArgument", 0, FALSE, FALSE)
    ELSE IF BufferTooSmall(max_dim, c.hp.hidden_size)
    THEN EncRes(-1, "BufferTooSmall", 0, FALSE, FALSE)
    ELSE IF BadImageSize(image_len)
    THEN EncRes(-1, "InvalidImage", 0, FALSE, FALSE)
    ELSE Compute(image_len, max_dim, lucky, c.hp.hidden_size, Max(c.hp.hidden_size, 0))

\* siglip_encode of siglip_inference.cpp: a null image (length 0 here)
\* returns nullptr and sets no error; otherwise the embedding is allocated
\* and cleared.  ret 0 stands for an embedding, -1 for nullptr.
siglip_encode(c, img) ==
    IF ~c.valid \/ img = 0 THEN EncRes(-1, "", 0, FALSE, FALSE)
    ELSE EncRes(0, "", Max(c.hp.hidden_size, 0), TRUE, FALSE)

\* The floats a successful encode of one image leaves at the start of its
\* output.
EmbeddingOf(v, hidden) ==
    [i \in 1..hidden |-> IF v = "siglip" THEN 0 ELSE Placeholder(i - 1)]

\* n floats of value x stored from float `off` (counted from 0) of buffer
\* out on; the part beyond the end of the buffer is lost.
Store(out, off, xs) ==
    [k \in 1..Len(out) |->
        IF k > off /\ k <= off + Len(xs) THEN xs[k - off] ELSE out[k]]

Zeros(n) == [i \in 1..n |-> 0]

\* What a batch call leaves: return value, buffer, last error set ("" for
\* none), whether a write went past the end of the buffer, whether the
\* process died, how many images the loop reached.
BatchRes(ret, out, err, overrun, crash, reached) ==
    [ret |-> ret, out |-> out, err |-> err, overrun |-> overrun,
     crash |-> crash, reached |-> reached]

\* memset(emb_ptr, 0, hp->hidden_size * sizeof(float)) at emb_ptr =
\* out_embeddings + i * embedding_dim, in a buffer of Len(out) floats.
ZeroFill(st, off, hidden, lucky) ==
    [st EXCEPT !.out = Store(st.out, off, Zeros(hidden)),
               !.overrun = st.overrun \/ off + hidden > Len(st.out),
               !.crash = off + hidden > Len(st.out) /\ ~lucky]

\* One turn of the loop of evaclip_encode_batch: r is what
\* evaclip_encode_image returned for the image whose slot starts at off.
EvaclipBatchStep(c, r, off, st, lucky) ==
    IF r.crash THEN [st EXCEPT !.crash = TRUE]
    ELSE IF r.ret # 0
    THEN ZeroFill([st EXCEPT !.err = r.err], off, c.hp.hidden_size, lucky)
    ELSE [st EXCEPT !.out = Store(st.out, off, EmbeddingOf("evaclip", r.written))]

\* The loop of evaclip_encode_batch from image i on.
RECURSIVE EvaclipBatchLoop(_, _, _, _, _, _)
EvaclipBatchLoop(c, images, i, embedding_dim, st, lucky) ==
    IF i > Len(images) \/ st.crash THEN st
    ELSE EvaclipBatchLoop(c, images, i + 1, embedding_dim,
            EvaclipBatchStep(c, evaclip_encode_image(c, images[i], embedding_dim, lucky),
                             (i - 1) * embedding_dim, [st EXCEPT !.reached = i], lucky),
            lucky)

evaclip_encode_batch(c, images, embedding_dim, out, lucky) ==
    IF ~c.valid THEN BatchRes(-1, out, "", FALSE, FALSE, 0)
    ELSE IF Len(images) <= 0 THEN BatchRes(0, out, "", FALSE, FALSE, 0)
    ELSE EvaclipBatchLoop(c, images, 1, embedding_dim,
                          BatchRes(0, out, "", FALSE, FALSE, 0), lucky)

\* One turn of the loop of openclip_encode_batch: a failed image ends the
\* call with OPENCLIP_ERR_ENCODE (-4).
OpenclipBatchStep(r, off, st) ==
    IF r.crash THEN [st EXCEPT !.crash = TRUE]
    ELSE IF r.ret < 0 THEN [st EXCEPT !.ret = -4, !.err = r.err]
    ELSE [st EXCEPT !.out = Store(st.out, off, EmbeddingOf("openclip", r.written))]

RECURSIVE OpenclipBatchLoop(_, _, _, _, _, _)
OpenclipBatchLoop(c, images, i, embedding_dim, st, lucky) ==
    IF i > Len(images) \/ st.crash \/ st.ret < 0 THEN st
    ELSE OpenclipBatchLoop(c, images, i + 1, embedding_dim,
            OpenclipBatchStep(openclip_encode(c, images[i], embedding_dim, lucky),
                              (i - 1) * embedding_dim, [st EXCEPT !.reached = i]),
            lucky)

openclip_encode_batch(c, images, embedding_dim, out, lucky) ==
    IF ~c.valid THEN BatchRes(-1, out, "", FALSE, FALSE, 0)
    ELSE OpenclipBatchLoop(c, images, 1, embedding_dim,
                           BatchRes(0, out, "", FALSE, FALSE, 0), lucky)

\* One turn of the loop of siglip_encode_batch: memcpy of the embedding, or
\* memset of the slot when siglip_encode returned nullptr.
SiglipBatchStep(c, r, off, st) ==
    IF r.ret = 0
    THEN [st EXCEPT !.out = Store(st.out, off, EmbeddingOf("siglip", r.written))]
    ELSE [st EXCEPT !.out = Store(st.out, off, Zeros(c.hp.hidden_size))]

RECURSIVE SiglipBatchLoop(_, _, _, _)
SiglipBatchLoop(c, images, i, st) ==
    IF i > Len(images) THEN st
    ELSE SiglipBatchLoop(c, images, i + 1,
            SiglipBatchStep(c, siglip_encode(c, images[i]),
                            (i - 1) * c.hp.hidden_size, [st EXCEPT !.reached = i]))

\* result->data = new float[hp->hidden_size * batch->n_images]; ret -1
\* stands for nullptr.
siglip_encode_batch(c, images) ==
    IF ~c.valid \/ Len(images) <= 0 THEN BatchRes(-1, <<>>, "", FALSE, FALSE, 0)
    ELSE SiglipBatchLoop(c, images, 1,
            BatchRes(0, [k \in 1..(c.hp.hidden_size * Len(images)) |-> Junk],
                     "", FALSE, FALSE, 0))

----------------------------------------------------------------------------
(* The batch calls that are made *)

BatchVariants == {"siglip", "evaclip", "openclip"}

\* Batches of up to MaxBatch images of 0, 3 or 4 bytes: an image of 3 bytes
\* is one RGB pixel, one of 4 bytes is no square RGB image.  For siglip the
\* image is a siglip_image pointer, 0 the null one.
Batches == UNION {[1..n -> ImageLens] : n \in 0..MaxBatch}

\* A context as a successful load leaves it, with a small hidden_size.
BatchCtx(v) ==
    [valid |-> TRUE,
     hp |-> [(IF v = "siglip" THEN SiglipDefaults
              ELSE IF v = "evaclip" THEN EvaclipDefaults ELSE OpenclipDefaults)
             EXCEPT !.hidden_size = BatchHidden],
     slots |-> {}]

InitBatch ==
    /\ variant \in BatchVariants
    /\ ctx = BatchCtx(variant)
    /\ phase = "loaded"
    /\ enc = NoEnc
    /\ last_error = ""
    /\ file = <<>>
    /\ arch = NoArch
    /\ res = NoRes
    /\ trace = NoTrace
    /\ probe = NoProbe

\* The caller's buffer of batch_size * embedding_dim floats before the call.
CallerBuffer(n, embedding_dim) == [k \in 1..(n * embedding_dim) |-> Junk]

BatchEncoded(images, embedding_dim, lucky, r) ==
    /\ enc' = [called |-> TRUE, images |-> images, embedding_dim |-> embedding_dim,
               lucky |-> lucky, ret |-> r.ret, out |-> r.out, overrun |-> r.overrun,
               reached |-> r.reached]
    /\ last_error' = IF r.err # "" THEN r.err ELSE last_error
    /\ phase' = IF r.crash THEN "crashed" ELSE phase
    /\ UNCHANGED <<variant, file, arch, ctx, res, trace, probe>>

BatchSiglip ==
    /\ phase = "loaded" /\ variant = "siglip" /\ ~enc.called
    /\ \E images \in Batches :
          BatchEncoded(images, ctx.hp.hidden_size, TRUE,
                       siglip_encode_batch(ctx, images))

BatchEvaclip ==
    /\ phase = "loaded" /\ variant = "evaclip" /\ ~enc.called
    /\ \E images \in Batches, lucky \in BOOLEAN :
         \E embedding_dim \in MaxDims(ctx.hp.hidden_size) \cup {ctx.hp.hidden_size + 1} :
            BatchEncoded(images, embedding_dim, lucky,
                         evaclip_encode_batch(ctx, images, embedding_dim,
                             CallerBuffer(Len(images), embedding_dim), lucky))

BatchOpenclip ==
    /\ phase = "loaded" /\ variant = "openclip" /\ ~enc.called
    /\ \E images \in Batches, lucky \in BOOLEAN :
         \E embedding_dim \in MaxDims(ctx.hp.hidden_size) \cup {ctx.hp.hidden_size + 1} :
            BatchEncoded(images, embedding_dim, lucky,
                         openclip_encode_batch(ctx, images, embedding_dim,
                             CallerBuffer(Len(images), embedding_dim), lucky))

NextBatch ==
    \/ BatchSiglip
    \/ BatchEvaclip
    \/ BatchOpenclip

SpecBatch == InitBatch /\ [][NextBatch]_vars

----------------------------------------------------------------------------
(* Properties of the batch calls *)

\* What the single-image encode of the variant returns for an image, with
\* the buffer size and the luck of the batch call.
SingleOf(img) ==
    IF variant = "siglip" THEN siglip_encode(ctx, img)
    ELSE IF variant = "evaclip"
    THEN evaclip_encode_image(ctx, img, enc.embedding_dim, enc.lucky)
    ELSE openclip_encode(ctx, img, enc.embedding_dim, enc.lucky)

SingleFails(i) == SingleOf(enc.images[i]).ret < 0
SingleSucceeds(i) == SingleOf(enc.images[i]).ret >= 0 /\ ~SingleOf(enc.images[i]).crash

\* Floats from one slot of the output to the next, and the positions of
\* slot i that hold its embedding.
Stride == IF variant = "siglip" THEN ctx.hp.hidden_size ELSE enc.embedding_dim
SlotPositions(i) ==
    {(i - 1) * Stride + k : k \in 1..Min(ctx.hp.hidden_size, Stride)}

\* A batch call that returned, with an image that fails on its own.
BatchWithFailure ==
    /\ enc.called /\ phase # "crashed"
    /\ \E i \in 1..Len(enc.images) : SingleFails(i)

\* C11: when one image of a batch fails to encode the batch call still
\* succeeds and returns one embedding per input image, the slot of the
\* failed image all zeros; it does not stop at the failed image.
C11_FailedImageZeroFilled ==
    BatchWithFailure =>
        /\ enc.ret = 0
        /\ enc.reached = Len(enc.images)
        /\ Len(enc.out) = Len(enc.images) * Stride
        /\ \A i \in 1..Len(enc.images) :
              SingleFails(i) => \A k \in SlotPositions(i) : enc.out[k] = 0

\* C12: after a batch encode in which some image fails, the slot of every
\* image that encodes on its own holds exactly the embedding of the
\* single-image encode, and the zero fill of a failed slot changes no
\* float outside that slot: no write goes past the buffer, and every float
\* outside the embeddings and the failed slots is what it was.
C12_OtherSlotsUntouched ==
    (BatchWithFailure /\ variant \in {"siglip", "evaclip"}) =>
        /\ ~enc.overrun
        /\ \A i \in 1..Len(enc.images) :
              SingleSucceeds(i) =>
                 \A k \in 1..ctx.hp.hidden_size :
                    enc.out[(i - 1) * Stride + k] = EmbeddingOf(variant, ctx.hp.hidden_size)[k]
        /\ \A k \in 1..Len(enc.out) :
              (\A i \in 1..Len(enc.images) : k \notin SlotPositions(i)) => enc.out[k] = Junk

----------------------------------------------------------------------------
(* Forward passes of several threads on one handle:                        *)
(* siglip_encode_preprocessed with build_graph (siglip.cpp) and            *)
(* nomic_forward (nomic_cpp).  A ggml context (arena) is a positive        *)
(* number, 0 the null pointer; an arena that was freed stays in res.freed. *)

MaxThreads == 2      \* threads that call encode on the handle
MaxCalls == 2        \* calls each thread makes

Threads == 1..MaxThreads

\* The handle after the load: siglip.cpp leaves ctx_compute, backend and
\* allocr null, nomic_init has started the backend.
ConcCtx(v) ==
    [valid |-> TRUE, ctx_compute |-> 0, backend |-> v = "nomic_cpp", allocr |-> FALSE]

\* A thread outside a call.
Idle(calls) == [pc |-> "idle", arena |-> 0, input |-> 0, calls |-> calls]

InitConc ==
    /\ variant \in {"siglip", "nomic_cpp"}
    /\ ctx = ConcCtx(variant)
    /\ phase = "loaded"
    /\ enc = [t \in Threads |-> Idle(0)]
    /\ res = [next |-> 1, freed |-> {}]
    /\ trace = [uaf |-> FALSE]
    /\ last_error = ""
    /\ file = <<>>
    /\ arch = NoArch
    /\ probe = NoProbe

ConcFrame == UNCHANGED <<variant, file, arch, last_error, probe>>

\* A use of memory that is null or freed: the process dies or goes on.
Undefined(bad) ==
    /\ trace' = [trace EXCEPT !.uaf = trace.uaf \/ bad]
    /\ \E lucky \in BOOLEAN : phase' = IF bad /\ ~lucky THEN "crashed" ELSE phase

\* ggml_new_tensor_3d(ctx->ctx_compute, ...): the input tensor is made in
\* the arena the handle points to at that moment.
SiglipNewInput(t) ==
    /\ phase = "loaded" /\ variant = "siglip"
    /\ enc[t].pc = "idle" /\ enc[t].calls < MaxCalls
    /\ enc' = [enc EXCEPT ![t].pc = "input", ![t].input = ctx.ctx_compute,
                          ![t].calls = enc[t].calls + 1]
    /\ Undefined(ctx.ctx_compute = 0)
    /\ UNCHANGED <<ctx, res>>
    /\ ConcFrame

\* build_graph: the arena of the handle is freed and replaced, and the
\* graph is built in the new one from the input tensor.
SiglipBuildGraph(t) ==
    /\ phase = "loaded" /\ variant = "siglip" /\ enc[t].pc = "input"
    /\ res' = [next |-> res.next + 1,
               freed |-> res.freed \cup (IF ctx.ctx_compute # 0
                                         THEN {ctx.ctx_compute} ELSE {})]
    /\ ctx' = [ctx EXCEPT !.ctx_compute = res.next]
    /\ enc' = [enc EXCEPT ![t].pc = "graph", ![t].arena = res.next]
    /\ Undefined(enc[t].input = 0 \/ enc[t].input = ctx.ctx_compute
                 \/ enc[t].input \in res.freed)
    /\ ConcFrame

\* The backend and the graph allocator are created in the handle when it
\* has none, and the graph is laid out.
SiglipAllocGraph(t) ==
    /\ phase = "loaded" /\ variant = "siglip" /\ enc[t].pc = "graph"
    /\ ctx' = [ctx EXCEPT !.backend = TRUE, !.allocr = TRUE]
    /\ enc' = [enc EXCEPT ![t].pc = "alloc"]
    /\ Undefined(enc[t].arena \in res.freed)
    /\ UNCHANGED res
    /\ ConcFrame

\* ggml_backend_graph_compute and the copy into a new embedding.
SiglipCompute(t) ==
    /\ phase = "loaded" /\ variant = "siglip" /\ enc[t].pc = "alloc"
    /\ enc' = [enc EXCEPT ![t] = Idle(enc[t].calls)]
    /\ Undefined(enc[t].arena \in res.freed)
    /\ UNCHANGED <<ctx, res>>
    /\ ConcFrame

\* nomic_forward: gctx = ggml_init(params), the graph built in it.
NomicInitCompute(t) ==
    /\ phase = "loaded" /\ variant = "nomic_cpp"
    /\ enc[t].pc = "idle" /\ enc[t].calls < MaxCalls
    /\ res' = [res EXCEPT !.next = res.next + 1]
    /\ enc' = [enc EXCEPT ![t].pc = "graph", ![t].arena = res.next,
                          ![t].input = res.next, ![t].calls = enc[t].calls + 1]
    /\ Undefined(FALSE)
    /\ UNCHANGED ctx
    /\ ConcFrame

\* ggml_gallocr_new and ggml_gallocr_alloc_graph on a local allocator.
NomicAllocGraph(t) ==
    /\ phase = "loaded" /\ variant = "nomic_cpp" /\ enc[t].pc = "graph"
    /\ enc' = [enc EXCEPT ![t].pc = "alloc"]
    /\ Undefined(enc[t].arena \in res.freed)
    /\ UNCHANGED <<ctx, res>>
    /\ ConcFrame

\* Compute, copy the output, free the allocator and gctx.
NomicCompute(t) ==
    /\ phase = "loaded" /\ variant = "nomic_cpp" /\ enc[t].pc = "alloc"
    /\ res' = [res EXCEPT !.freed = res.freed \cup {enc[t].arena}]
    /\ enc' = [enc EXCEPT ![t] = Idle(enc[t].calls)]
    /\ Undefined(enc[t].arena \in res.freed)
    /\ UNCHANGED ctx
    /\ ConcFrame

NextConc ==
    \E t \in Threads :
        \/ SiglipNewInput(t)
        \/ SiglipBuildGraph(t)
        \/ SiglipAllocGraph(t)
        \/ SiglipCompute(t)
        \/ NomicInitCompute(t)
        \/ NomicAllocGraph(t)
        \/ NomicCompute(t)

SpecConc == InitConc /\ [][NextConc]_vars

\* Thread t is inside a forward pass.
InCall(t) == enc[t].pc # "idle"

\* C13: forward passes of several threads on one loaded handle are safe:
\* inference writes nothing in the handle, the arena each call works in is
\* its own, and no call uses memory that is null or was freed.
C13_ConcurrentEncodeSafe ==
    /\ ctx = ConcCtx(variant)
    /\ ~trace.uaf
    /\ \A t \in Threads, u \in Threads :
          (t # u /\ InCall(t) /\ InCall(u) /\ enc[t].arena # 0) =>
              enc[t].arena # enc[u].arena
    /\ \A t \in Threads : InCall(t) => enc[t].arena \notin res.freed

----------------------------------------------------------------------------
(* Properties of the last-error string *)

\* C14: every failing call of a public load or encode function sets the
\* calling thread's last-error string: asked for right after the failure,
\* the accessor returns a message.  The thread had no error before the load.
C14_FailureSetsLastError ==
    /\ (JustLoaded /\ phase = "failed") => last_error # ""
    /\ (enc.called /\ phase # "crashed" /\ enc.ret < 0) => last_error # ""

----------------------------------------------------------------------------
(* The last-error string over a sequence of calls of one thread:           *)
(* <x>_set_error, <x>_get_last_error and <x>_clear_error of dinov2, nomic  *)
(* and openclip.  "" is the empty buffer g_last_error.                     *)

MaxErrCalls == 3     \* calls the thread makes

\* A successful call lets the string stand.
LastErrorReset(prev, r) == r.err

\* <x>_set_error is called on failure paths only: the string after a call
\* that returned r.
LastErrorAfter(prev, r) == IF r.err # "" THEN r.err ELSE prev

\* return g_last_error[0] ? g_last_error : nullptr; "null" is nullptr.
get_last_error(err) == IF err # "" THEN err ELSE "null"

\* g_last_error[0] = '\0'
clear_error(err) == ""

ErrVariants == {"dinov2", "nomic", "openclip"}

InitErr ==
    /\ variant \in ErrVariants
    /\ ctx = [valid |-> TRUE,
              hp |-> [(IF variant = "dinov2" THEN Dinov2Defaults
                       ELSE IF variant = "nomic" THEN NomicDefaults
                       ELSE OpenclipDefaults)
                      EXCEPT !.hidden_size = BatchHidden],
              slots |-> {}]
    /\ phase = "loaded"
    /\ enc = [called |-> FALSE, n |-> 0, op |-> "none", ret |-> 0, got |-> ""]
    /\ last_error = ""
    /\ trace = [kept |-> 0]
    /\ file = <<>>
    /\ arch = NoArch
    /\ res = NoRes
    /\ probe = NoProbe

ErrFrame == UNCHANGED <<variant, file, arch, ctx, res, probe>>

\* kept counts the successful calls since the string was last set.
ErrEncoded(r) ==
    /\ enc' = [called |-> TRUE, n |-> enc.n + 1, op |-> "encode", ret |-> r.ret,
               got |-> ""]
    /\ last_error' = LastErrorAfter(last_error, r)
    /\ trace' = [kept |-> IF r.err # "" \/ last_error = "" THEN 0 ELSE trace.kept + 1]
    /\ phase' = IF r.crash THEN "crashed" ELSE phase
    /\ ErrFrame

ErrEncodeDinov2 ==
    /\ phase = "loaded" /\ variant = "dinov2" /\ enc.n < MaxErrCalls
    /\ \E image_len \in ImageLens, mode \in OutputModes, e \in Envs :
         \E max_dim \in MaxDims(ctx.hp.hidden_size) :
            ErrEncoded(dinov2_encode(ctx, image_len, max_dim, mode, e))

ErrEncodeNomic ==
    /\ phase = "loaded" /\ variant = "nomic" /\ enc.n < MaxErrCalls
    /\ \E image_len \in ImageLens, lucky \in BOOLEAN :
         \E max_dim \in MaxDims(ctx.hp.hidden_size) :
            ErrEncoded(nomic_encode(ctx, image_len, max_dim, lucky))

ErrEncodeOpenclip ==
    /\ phase = "loaded" /\ variant = "openclip" /\ enc.n < MaxErrCalls
    /\ \E image_len \in ImageLens, lucky \in BOOLEAN :
         \E max_dim \in MaxDims(ctx.hp.hidden_size) :
            ErrEncoded(openclip_encode(ctx, image_len, max_dim, lucky))

ErrGet ==
    /\ phase = "loaded" /\ enc.n < MaxErrCalls
    /\ enc' = [called |-> TRUE, n |-> enc.n + 1, op |-> "get", ret |-> 0,
               got |-> get_last_error(last_error)]
    /\ UNCHANGED <<last_error, trace, phase>>
    /\ ErrFrame

ErrClear ==
    /\ phase = "loaded" /\ enc.n < MaxErrCalls
    /\ enc' = [called |-> TRUE, n |-> enc.n + 1, op |-> "clear", ret |-> 0, got |-> ""]
    /\ last_error' = clear_error(last_error)
    /\ trace' = [kept |-> 0]
    /\ UNCHANGED phase
    /\ ErrFrame

NextErr ==
    \/ ErrEncodeDinov2
    \/ ErrEncodeNomic
    \/ ErrEncodeOpenclip
    \/ ErrGet
    \/ ErrClear

SpecErr == InitErr /\ [][NextErr]_vars

\* C15: once set, the last-error string of a thread keeps its value across
\* the successful calls that follow and changes only through a later
\* failure, which overwrites it with a message, or an explicit clear, after
\* which the accessor reports no error.
C15_LastErrorPersists ==
    [][/\ (enc'.op = "encode" /\ enc'.ret >= 0 /\ phase' # "crashed")
            => last_error' = last_error
       /\ (enc'.op = "encode" /\ enc'.ret < 0) => last_error' # ""
       /\ enc'.op = "get"
            => (last_error' = last_error
                /\ enc'.got = (IF last_error = "" THEN "null" ELSE last_error))
       /\ (enc.op = "clear" /\ enc'.op = "get") => enc'.got = "null"
       /\ (enc.op = "clear" /\ enc'.op = "encode" /\ enc'.ret >= 0) => last_error' = ""
      ]_vars

\* A failure, then two successful calls, the message of the failure still
\* there.
C15_Witness ==
    /\ enc.op = "encode" /\ enc.ret >= 0 /\ phase = "loaded"
    /\ last_error # ""
    /\ trace.kept = 2

----------------------------------------------------------------------------
(* Reading the header and the descriptor table with the helpers of         *)
(* siglip_gguf.cpp: gguf_validate_header, gguf_read_tensor_infos.          *)

\* Dimensions read as 32-bit fields, as version 1 of the format had them.
DimAt32(f, base, j) == UInt(SubSeq(f, base + 4 * (j - 1) + 1, base + 4 * j))

\* fread(&out_infos[i].dims[j], sizeof(uint64_t), 1, f), j from 1, with the
\* first dimension at `base`.
DimAt(f, base, j) == UInt(SubSeq(f, base + 8 * (j - 1) + 1, base + 8 * j))

\* The fields of one descriptor after its name nm and its n_dims field nd.
\* Every fread is checked; a short one ends the function, and the stream is
\* at end of file then.  dims.resize(n_dims) throws when the allocator
\* refuses.
GgufInfoFields(f, nm, nd, e) ==
    LET complete == nd.ok /\ nd.v < BigVal /\ nd.pos + 8 * nd.v + 12 <= Len(f)
        end == nd.pos + 8 * nd.v
    IN [ok |-> ~nm.crash /\ complete,
        crash |-> nm.crash \/ (nd.ok /\ nd.v >= BigVal /\ ~e.lucky),
        info |-> IF complete
                 THEN [name |-> nm.s, n_dims |-> nd.v,
                       dims |-> [j \in 1..nd.v |-> DimAt(f, nd.pos, j)],
                       type |-> UInt(SubSeq(f, end + 1, end + 4)),
                       offset |-> UInt(SubSeq(f, end + 5, end + 12))]
                 ELSE EmptyInfo,
        pos |-> IF complete THEN end + 12 ELSE Max(nd.pos, Len(f))]

GgufTensorInfo(f, pos, e) ==
    GgufInfoFields(f, gguf_read_string(f, pos, e.lucky),
                   Field(f, gguf_read_string(f, pos, e.lucky).pos, 4, 0), e)

InfosRes(ok, infos, pos, crash) ==
    [ok |-> ok, infos |-> infos, pos |-> pos, crash |-> crash]

\* gguf_read_tensor_infos: out_infos.resize(n_tensors), then one descriptor
\* after the other; false at the first short read.
RECURSIVE GgufInfosLoop(_, _, _, _, _)
GgufInfosStep(f, n, acc, e, r) ==
    IF r.crash THEN InfosRes(FALSE, acc, r.pos, TRUE)
    ELSE IF ~r.ok THEN InfosRes(FALSE, acc, r.pos, FALSE)
    ELSE GgufInfosLoop(f, r.pos, n - 1, Append(acc, r.info), e)

GgufInfosLoop(f, pos, n, acc, e) ==
    IF n = 0 THEN InfosRes(TRUE, acc, pos, FALSE)
    ELSE GgufInfosStep(f, n, acc, e, GgufTensorInfo(f, pos, e))

gguf_read_tensor_infos(f, pos, n_tensors, e) ==
    IF n_tensors >= BigVal /\ ~e.lucky THEN InfosRes(FALSE, <<>>, pos, TRUE)
    ELSE GgufInfosLoop(f, pos, n_tensors, <<>>, e)

NoInfos == InfosRes(FALSE, <<>>, 0, FALSE)
NoHeader == [ok |-> FALSE, n_tensors |-> 0, n_kv |-> 0, pos |-> 0]

InitGguf ==
    /\ arch \in Archives
    /\ file = FileOf(arch)
    /\ phase = "init"
    /\ res = NoHeader
    /\ ctx = NoInfos
    /\ probe = [pos |-> 0]
    /\ variant = "siglip_gguf"
    /\ last_error = ""
    /\ trace = BlankTrace
    /\ enc = NoEnc

GgufFrame == UNCHANGED <<variant, file, arch, last_error, trace, enc>>

GgufValidateHeader ==
    /\ phase = "init"
    /\ res' = gguf_validate_header(file)
    /\ phase' = IF res'.ok THEN "header" ELSE "failed"
    /\ probe' = [pos |-> res'.pos]
    /\ UNCHANGED ctx
    /\ GgufFrame

GgufSkipMetadata ==
    /\ phase = "header"
    /\ \E e \in Envs :
         LET st == GgufSkipAll(file, res.n_kv,
                               [pos |-> probe.pos, hp |-> SiglipDefaults,
                                crash |-> FALSE, fail |-> FALSE], e)
         IN /\ phase' = IF st.crash THEN "crashed" ELSE "meta"
            /\ probe' = [pos |-> st.pos]
    /\ UNCHANGED <<res, ctx>>
    /\ GgufFrame

GgufReadTensorInfos ==
    /\ phase = "meta"
    /\ \E e \in Envs :
         /\ ctx' = gguf_read_tensor_infos(file, probe.pos, res.n_tensors, e)
         /\ phase' = IF ctx'.crash THEN "crashed"
                     ELSE IF ctx'.ok THEN "infos" ELSE "failed"
         /\ probe' = [pos |-> ctx'.pos]
    /\ UNCHANGED res
    /\ GgufFrame

NextGguf ==
    \/ GgufValidateHeader
    \/ GgufSkipMetadata
    \/ GgufReadTensorInfos

SpecGguf == InitGguf /\ [][NextGguf]_vars

\* A complete archive with the GGUF magic and a supported version.
ValidArchive(a) ==
    /\ a.magic = MagicBytes
    /\ a.version >= GGUF_VERSION_MIN /\ a.version <= GGUF_VERSION_MAX
    /\ a.cut = 0 /\ ~a.torn

\* C16: for a valid archive with N tensors and K metadata entries the
\* header is accepted and reports exactly N and K, and the descriptor table
\* is read completely and gives back every tensor's name, dimensions and
\* offset unchanged and in the archive's order.
C16_HeaderAndDescriptorsRecovered ==
    ValidArchive(arch) =>
        /\ phase \notin {"failed", "crashed"}
        /\ phase # "init"
             => (res.ok /\ res.n_tensors = Len(arch.tensors)
                 /\ res.n_kv = Len(arch.kvs))
        /\ phase = "infos"
             => /\ Len(ctx.infos) = Len(arch.tensors)
                /\ \A i \in 1..Len(arch.tensors) :
                     /\ ctx.infos[i].name = arch.tensors[i].name
                     /\ ctx.infos[i].dims = arch.tensors[i].dims
                     /\ ctx.infos[i].offset = arch.tensors[i].offset

\* The table of an archive with two tensors, the second at a non-zero
\* offset, and metadata before it has been read.
C16_Witness ==
    /\ ValidArchive(arch) /\ phase = "infos"
    /\ Len(arch.tensors) = 2 /\ Len(arch.kvs) >= 2
    /\ ctx.ok /\ ctx.infos[2].offset > 0 /\ Len(ctx.infos[2].dims) = 2

----------------------------------------------------------------------------
(* The value dinov2_encode returns *)

\* The floats the mode of the call stands for: one token of hidden_size
\* floats for CLS and MEAN, num_patches tokens for PATCHES (saturated at
\* BigVal like every count of the model).
ModeFloats(hp, mode) ==
    IF mode = DINOV2_OUTPUT_PATCHES THEN SatMul(hp.num_patches, hp.hidden_size)
    ELSE hp.hidden_size

\* C17: a successful dinov2_encode returns the number of floats it wrote:
\* hidden_size in the modes CLS and MEAN, num_patches * hidden_size in the
\* mode PATCHES (counts compared up to BigVal).
C17_ReturnsFloatsWritten ==
    (variant = "dinov2" /\ enc.called /\ ctx.valid /\ phase # "crashed"
     /\ enc.ret >= 0)
        => /\ Min(BigVal, enc.ret) = enc.written
           /\ enc.written = ModeFloats(ctx.hp, enc.mode)

----------------------------------------------------------------------------
(* The forward pass on a handle whose weights are not all bound:           *)
(* build_graph (siglip.cpp) and nomic_forward (nomic_cpp), for a model of  *)
(* one transformer block.  A weight is its field name in the handle; the   *)
(* loaders bind the tensors the archive names and leave the other fields   *)
(* nullptr.                                                                *)

MaxMissing == 2      \* most weights the archive did not hold

\* The weights build_graph hands to ggml without looking at them, in the
\* order of their use.
SiglipUnchecked ==
    <<"patch_embed_weight", "ln1_weight", "attn_q_weight", "attn_k_weight",
      "attn_v_weight", "attn_out_weight", "ln2_weight", "mlp_fc1_weight",
      "mlp_fc2_weight", "norm_weight">>

\* The weights build_graph uses under `if (w)`.
SiglipChecked == {"patch_embed_bias", "pos_embed", "ln1_bias", "head_weight"}

\* nomic_forward, build_layer_norm, build_attention, build_gelu_mlp.
NomicUnchecked ==
    <<"patch_embed_weight", "ln1_weight", "q_weight", "k_weight", "v_weight",
      "o_weight", "ln2_weight", "ffn_up_weight", "ffn_down_weight">>

NomicChecked == {"patch_embed_bias", "cls_token", "pos_embed", "ffn_gate_weight",
                 "post_ln_weight"}

Range(seq) == {seq[i] : i \in 1..Len(seq)}

\* Index of the first weight used unchecked that is nullptr, 0 for none.
FirstNull(unchecked, bound) ==
    LET hits == {i \in 1..Len(unchecked) : unchecked[i] \notin bound} IN
    IF hits = {} THEN 0 ELSE CHOOSE i \in hits : \A j \in hits : i <= j

FwdRes(ret, err, null_used, computed, crash) ==
    [ret |-> ret, err |-> err, null_used |-> null_used, computed |-> computed,
     crash |-> crash]

\* The graph is built and computed.  A nullptr weight handed to
\* ggml_conv_2d, ggml_mul or ggml_mul_mat is dereferenced there: the
\* process dies, or goes on with what it read.  arena says whether the
\* context the input tensor is created in exists.
Forward(unchecked, bound, arena, lucky) ==
    IF FirstNull(unchecked, bound) # 0 \/ ~arena
    THEN FwdRes(0, "", FirstNull(unchecked, bound) # 0, lucky, ~lucky)
    ELSE FwdRes(0, "", FALSE, TRUE, FALSE)

\* siglip_encode_preprocessed (siglip.cpp): the input tensor is created in
\* ctx->ctx_compute, which the first call finds nullptr, then build_graph.
siglip_forward(c, lucky) ==
    Forward(SiglipUnchecked, c.slots, c.ctx_compute # 0, lucky)

\* nomic_forward: the compute context is created by the call; ggml_init
\* returning nullptr is reported.
nomic_forward(c, initOk, lucky) ==
    IF ~initOk THEN FwdRes(-1, "ComputeContext", FALSE, FALSE, FALSE)
    ELSE Forward(NomicUnchecked, c.slots, TRUE, lucky)

\* Handles with at most MaxMissing of the weights unbound.
Handles(weights) ==
    {weights \ m : m \in {x \in SUBSET weights : Cardinality(x) <= MaxMissing}}

InitFwd ==
    /\ variant \in {"siglip", "nomic_cpp"}
    /\ \E slots \in Handles(IF variant = "siglip"
                            THEN Range(SiglipUnchecked) \cup SiglipChecked
                            ELSE Range(NomicUnchecked) \cup NomicChecked) :
         ctx = [valid |-> TRUE, slots |-> slots, ctx_compute |-> 0]
    /\ phase = "loaded"
    /\ enc = [called |-> FALSE, ret |-> 0, null_used |-> FALSE, computed |-> FALSE]
    /\ last_error = ""
    /\ file = <<>>
    /\ arch = NoArch
    /\ res = NoRes
    /\ trace = BlankTrace
    /\ probe = NoProbe

Forwarded(r) ==
    /\ enc' = [called |-> TRUE, ret |-> r.ret, null_used |-> r.null_used,
               computed |-> r.computed]
    /\ last_error' = LastErrorAfter(last_error, r)
    /\ phase' = IF r.crash THEN "crashed" ELSE phase
    /\ ctx' = IF variant = "siglip" /\ ~r.crash THEN [ctx EXCEPT !.ctx_compute = 1]
              ELSE ctx
    /\ UNCHANGED <<variant, file, arch, res, trace, probe>>

ForwardSiglip ==
    /\ phase = "loaded" /\ variant = "siglip" /\ ~enc.called
    /\ \E lucky \in BOOLEAN : Forwarded(siglip_forward(ctx, lucky))

ForwardNomicCpp ==
    /\ phase = "loaded" /\ variant = "nomic_cpp" /\ ~enc.called
    /\ \E initOk \in BOOLEAN, lucky \in BOOLEAN :
         Forwarded(nomic_forward(ctx, initOk, lucky))

NextFwd ==
    \/ ForwardSiglip
    \/ ForwardNomicCpp

SpecFwd == InitFwd /\ [][NextFwd]_vars

\* A weight the forward pass cannot do without is not bound.
MissingRequired ==
    Range(IF variant = "siglip" THEN SiglipUnchecked ELSE NomicUnchecked)
        \ ctx.slots # {}

\* C18: when a required weight was never bound, the first forward pass on
\* the handle fails with IncompleteModel and computes nothing.
C18_IncompleteModelReported ==
    (enc.called /\ MissingRequired) =>
        /\ phase # "crashed"
        /\ enc.ret < 0
        /\ last_error = "IncompleteModel"
        /\ ~enc.computed

----------------------------------------------------------------------------
(* Cosine similarity: siglip_cosine_similarity_raw, nomic_cosine_similarity. *)
(* A float is NaN, an infinity, or a finite value v / FScale with          *)
(* |v| <= FMax; products round towards zero, so the square of the smallest *)
(* value underflows to 0, and results beyond FMax are infinite.  -0.0f     *)
(* compares equal to 0.0f and is not told apart from it.                   *)

MaxVec == 2          \* longest vector
FScale == 2
FMax == 8

FNaN == [k |-> "nan", v |-> 0]
FInf(sign) == [k |-> "inf", v |-> sign]
Fin(v) == [k |-> "fin", v |-> v]

FSign(x) == IF x.v > 0 THEN 1 ELSE IF x.v < 0 THEN -1 ELSE 0
FRound(v) == IF v > FMax THEN FInf(1) ELSE IF v < 0 - FMax THEN FInf(-1) ELSE Fin(v)
TruncDiv(p, q) == IF (p >= 0) = (q > 0) THEN (IF p >= 0 THEN p ELSE 0 - p) \div
                                               (IF q > 0 THEN q ELSE 0 - q)
                  ELSE 0 - ((IF p >= 0 THEN p ELSE 0 - p) \div
                            (IF q > 0 THEN q ELSE 0 - q))

\* x * y
FMul(x, y) ==
    IF x.k = "nan" \/ y.k = "nan" THEN FNaN
    ELSE IF x.k = "inf" \/ y.k = "inf"
    THEN IF FSign(x) * FSign(y) = 0 THEN FNaN ELSE FInf(FSign(x) * FSign(y))
    ELSE FRound(TruncDiv(x.v * y.v, FScale))

\* x + y
FAdd(x, y) ==
    IF x.k = "nan" \/ y.k = "nan" THEN FNaN
    ELSE IF x.k = "inf" /\ y.k = "inf" THEN IF x.v = y.v THEN x ELSE FNaN
    ELSE IF x.k = "inf" THEN x
    ELSE IF y.k = "inf" THEN y
    ELSE FRound(x.v + y.v)

\* sqrtf(x)
FSqrt(x) ==
    IF x.k = "nan" \/ x.v < 0 THEN FNaN
    ELSE IF x.k = "inf" THEN x
    ELSE Fin(Isqrt(x.v * FScale))

\* x / y
FDiv(x, y) ==
    IF x.k = "nan" \/ y.k = "nan" THEN FNaN
    ELSE IF x.k = "inf" THEN IF y.k = "inf" THEN FNaN
                             ELSE FInf(IF y.v < 0 THEN 0 - x.v ELSE x.v)
    ELSE IF y.k = "inf" THEN Fin(0)
    ELSE IF y.v = 0 THEN IF x.v = 0 THEN FNaN ELSE FInf(FSign(x))
    ELSE FRound(TruncDiv(x.v * FScale, y.v))

\* The test for a zero norm left out.
ZeroNormIgnored(norm_a, norm_b) == FALSE

\* norm_a == 0.0f || norm_b == 0.0f; NaN compares unequal to everything.
ZeroNorm(norm_a, norm_b) ==
    (norm_a.k = "fin" /\ norm_a.v = 0) \/ (norm_b.k = "fin" /\ norm_b.v = 0)

\* The sums after the loop over i < size, and what is returned.
CosReturn(dot, norm_a, norm_b) ==
    IF ZeroNorm(norm_a, norm_b) THEN Fin(0)
    ELSE FDiv(dot, FMul(FSqrt(norm_a), FSqrt(norm_b)))

RECURSIVE CosLoop(_, _, _, _, _, _)
CosLoop(a, b, i, dot, norm_a, norm_b) ==
    IF i > Len(a) THEN CosReturn(dot, norm_a, norm_b)
    ELSE CosLoop(a, b, i + 1, FAdd(dot, FMul(a[i], b[i])),
                 FAdd(norm_a, FMul(a[i], a[i])), FAdd(norm_b, FMul(b[i], b[i])))

siglip_cosine_similarity_raw(a, b) == CosLoop(a, b, 1, Fin(0), Fin(0), Fin(0))

nomic_cosine_similarity(a, b) == CosLoop(a, b, 1, Fin(0), Fin(0), Fin(0))

\* NaN, an infinity, a negative value, zero, the smallest positive value,
\* the largest.
FloatVals == {FNaN, FInf(1), Fin(-3), Fin(0), Fin(1), Fin(FMax)}

Vectors(n) == [1..n -> FloatVals]

InitCos ==
    /\ variant \in {"siglip", "nomic_cpp"}
    /\ \E n \in 0..MaxVec : \E a \in Vectors(n), b \in Vectors(n) :
         ctx = [a |-> a, b |-> b]
    /\ phase = "init"
    /\ res = FNaN
    /\ enc = NoEnc
    /\ last_error = ""
    /\ file = <<>>
    /\ arch = NoArch
    /\ trace = BlankTrace
    /\ probe = NoProbe

CosFrame == UNCHANGED <<variant, file, arch, ctx, last_error, trace, enc, probe>>

CosSiglip ==
    /\ phase = "init" /\ variant = "siglip"
    /\ res' = siglip_cosine_similarity_raw(ctx.a, ctx.b)
    /\ phase' = "done"
    /\ CosFrame

CosNomic ==
    /\ phase = "init" /\ variant = "nomic_cpp"
    /\ res' = nomic_cosine_similarity(ctx.a, ctx.b)
    /\ phase' = "done"
    /\ CosFrame

NextCos ==
    \/ CosSiglip
    \/ CosNomic

SpecCos == InitCos /\ [][NextCos]_vars

\* Every element of the vector is zero: its norm is zero.
AllZero(x) == \A i \in 1..Len(x) : x[i] = Fin(0)

----------------------------------------------------------------------------
(* Loading an archive with a metadata entry whose type tag is in no        *)
(* loader's table of widths                                                *)

\* Tags beyond GGUF_TYPE_FLOAT64 and beyond the 14 entries of the longest
\* table.
UnknownTags == {14, 99}

\* The entry: the key no loader knows, the tag, and no payload.
UnknownEntry(tag) == Entry(KeyUnknown, VScalar(tag, 0))

\* Complete archives with the entry before or after the other metadata.
TagArchives ==
    {[Arch(MagicBytes, GGUF_VERSION_MAX, kc, tc, 0, FALSE)
        EXCEPT !.kvs = IF front THEN <<UnknownEntry(tag)>> \o KvsOf(kc)
                       ELSE KvsOf(kc) \o <<UnknownEntry(tag)>>] :
        kc \in {c \in KvChoices : c.extra = "none"}, tc \in TensorChoices,
        tag \in UnknownTags, front \in BOOLEAN}

InitTag ==
    /\ variant \in Loaders
    /\ arch \in TagArchives
    /\ file = FileOf(arch)
    /\ phase = "init"
    /\ ctx = NoCtx
    /\ res = NoRes
    /\ last_error = ""
    /\ trace = BlankTrace
    /\ enc = NoEnc
    /\ probe = NoProbe

NextTag ==
    \/ LoadSiglip
    \/ LoadSiglipGguf
    \/ LoadDinov2
    \/ LoadEvaclip
    \/ LoadNomic
    \/ LoadNomicCpp
    \/ LoadOpenclip

SpecTag == InitTag /\ [][NextTag]_vars

\* C20: a metadata entry whose type tag is outside the table of widths
\* makes the load fail (FormatError): no context is returned, the loader
\* does not go on as if the value had been skipped.
C20_UnknownTagRejected ==
    (phase # "init" /\ arch \in TagArchives) =>
        /\ phase = "failed"
        /\ ~ctx.valid

----------------------------------------------------------------------------
(* Resolving the hyper-parameters: the load functions on complete archives *)
(* whose metadata entries vary in key and in the type of the value.        *)

MaxKv == 2           \* most metadata entries of these archives

\* What each loader takes its hyper-parameters from.  The helpers of
\* siglip_gguf.cpp read none.
KeysOf(v) ==
    CASE v = "siglip" -> SiglipKeys
      [] v = "dinov2" -> Dinov2Cfg.keys
      [] v = "evaclip" -> EvaclipCfg.keys
      [] v = "nomic" -> NomicCfg.keys
      [] v = "openclip" -> OpenclipCfg.keys
      [] v = "nomic_cpp" -> NomicCppCfg.keys
      [] OTHER -> {}

DefaultsOf(v) ==
    CASE v = "dinov2" -> Dinov2Defaults
      [] v = "evaclip" -> EvaclipDefaults
      [] v \in {"nomic", "nomic_cpp"} -> NomicDefaults
      [] v = "openclip" -> OpenclipDefaults
      [] OTHER -> SiglipDefaults

\* hidden_size and intermediate_size under the loader's prefix and
\* hidden_size under "vision.", as an unsigned or signed 32-bit or an
\* unsigned 64-bit value; num_attention_heads as an unsigned 32-bit one.
MetaValue == 8
MetaHeads == 3
KnownEntries ==
    {Entry(k, VScalar(t, MetaValue)) :
        k \in {KeyArch(104), KeyVision(104), KeyArch(73)},
        t \in {GGUF_TYPE_UINT32, GGUF_TYPE_INT32, GGUF_TYPE_UINT64}}
    \cup {Entry(KeyArch(72), U32(MetaHeads))}

\* A key no loader knows, with a value of one, four or eight bytes, a
\* string or an array.
OtherEntries ==
    {Entry(KeyUnknown, v) :
        v \in {VScalar(GGUF_TYPE_UINT8, 1), VScalar(GGUF_TYPE_FLOAT32, 1),
               VScalar(GGUF_TYPE_UINT64, 1), VString(StrOfLen(1)),
               VArray(GGUF_TYPE_UINT32, <<U32(1)>>)}}

MetaArchives ==
    {[Arch(MagicBytes, GGUF_VERSION_MAX, PlainKv,
           [top |-> TRUE, blk |-> FALSE, idx |-> 0], 0, FALSE)
        EXCEPT !.kvs = kvs] :
        kvs \in UNION {[1..n -> KnownEntries \cup OtherEntries] : n \in 0..MaxKv}}

InitMeta ==
    /\ variant \in Loaders
    /\ arch \in MetaArchives
    /\ file = FileOf(arch)
    /\ phase = "init"
    /\ ctx = NoCtx
    /\ res = NoRes
    /\ last_error = ""
    /\ trace = BlankTrace
    /\ enc = NoEnc
    /\ probe = NoProbe

NextMeta ==
    \/ LoadSiglip
    \/ LoadSiglipGguf
    \/ LoadDinov2
    \/ LoadEvaclip
    \/ LoadNomic
    \/ LoadNomicCpp
    \/ LoadOpenclip

SpecMeta == InitMeta /\ [][NextMeta]_vars

\* The entries of the archive whose key the loader takes field F from.
EntriesFor(F) ==
    {i \in 1..Len(arch.kvs) : FieldOf(arch.kvs[i].key, KeysOf(variant)) = F}

\* The fields a key can set.  num_patches is derived from image_size and
\* patch_size.
KeyedFields == {"hidden_size", "intermediate_size", "num_attention_heads",
                "num_hidden_layers", "image_size", "patch_size"}

\* C21: after the hyper-parameters are resolved every field holds the
\* value of its recognised key when the archive has one (the last one when
\* it has several) and the default of the architecture otherwise; keys the
\* loader does not recognise change no field.
C21_FieldsFromKeysOrDefaults ==
    (phase = "loaded" /\ variant # "siglip_gguf") =>
        \A F \in KeyedFields :
            ctx.hp[F] = IF EntriesFor(F) = {} THEN DefaultsOf(variant)[F]
                        ELSE arch.kvs[CHOOSE i \in EntriesFor(F) :
                                        \A j \in EntriesFor(F) : j <= i].val.n

\* Magic, version, tensor count and metadata count: 4 + 4 + 8 + 8 bytes.
HeaderBytes == 24

\* The byte the tensor-descriptor table of an archive starts at: the 24
\* bytes of the header and the metadata entries lie before it.
DescriptorTable(a) ==
    HeaderBytes + Len(Concat([i \in 1..Len(a.kvs) |-> EncKV(a.kvs[i])]))

\* C22: once the loader has gone through all the metadata entries of a
\* well-formed archive, consumed or skipped and of whatever type, the
\* stream stands at the first byte of the tensor-descriptor table.
C22_MetadataEndsAtDescriptors ==
    (phase = "loaded" /\ trace.meta_end # -1) =>
        trace.meta_end = DescriptorTable(arch)

----------------------------------------------------------------------------
(* Encode calls one after the other on one loaded handle:                  *)
(* siglip_encode_preprocessed and siglip_encode_batch of siglip.cpp,       *)
(* nomic_forward of nomic_cpp.                                             *)

MaxSeq == 2          \* calls made on the handle
SeqLayers == 2       \* num_hidden_layers of the model
SeqImages == {1, 2}  \* the images that are encoded

\* The feed-forward block nomic_forward builds for layer l:
\* `if (layer.ffn_gate_weight)` build_swiglu_mlp, else build_gelu_mlp.
FfnKindFirst(gate, l) == IF gate[1] THEN "swiglu" ELSE "gelu"
FfnKind(gate, l) == IF gate[l] THEN "swiglu" ELSE "gelu"

\* The graph a forward pass builds, layer by layer.
FfnKinds(c) == [l \in 1..SeqLayers |-> FfnKind(c.gate, l)]

\* The embedding is a function of the weights, of the graph that was built
\* and of the pixels the graph read.
SeqEmbedding(c, seen) == [input |-> seen, ffn |-> FfnKinds(c), slots |-> c.slots]

\* build_graph and siglip_encode_preprocessed write the compute context,
\* the backend and the allocator of the handle.
SiglipHandleWiped(c, calls) ==
    [c EXCEPT !.ctx_compute = c.ctx_compute + calls, !.backend = TRUE,
              !.allocr = TRUE, !.slots = {}]
SiglipHandleAfter(c, calls) ==
    [c EXCEPT !.ctx_compute = c.ctx_compute + calls, !.backend = TRUE,
              !.allocr = TRUE]

\* siglip_encode_preprocessed creates the input tensor in ctx->ctx_compute,
\* nullptr on the first call; build_graph then frees that very context
\* before it builds the graph from the tensor.
SiglipInputLost(c) ==
    LET input_arena == c.ctx_compute
        freed == IF c.ctx_compute # 0 THEN {c.ctx_compute} ELSE {}
    IN input_arena = 0 \/ input_arena \in freed

\* What the graph can read as its input: the pixels of the image, or
\* whatever the freed memory holds by then.
InputSeen(img, lost) ==
    {[img |-> img, intact |-> b] : b \in IF lost THEN BOOLEAN ELSE {TRUE}}

\* The handle after nomic_init; siglip.cpp has no gate weights and leaves
\* ctx_compute, backend and allocr nullptr.
SeqHandle(v, gate) ==
    [valid |-> TRUE, ctx_compute |-> 0, backend |-> v = "nomic_cpp",
     allocr |-> FALSE, gate |-> gate,
     slots |-> Range(IF v = "siglip" THEN SiglipUnchecked ELSE NomicUnchecked),
     hp |-> [hidden_size |-> BatchHidden, num_hidden_layers |-> SeqLayers]]

InitSeq ==
    /\ variant \in {"siglip", "nomic_cpp"}
    /\ \E gate \in [1..SeqLayers -> BOOLEAN] :
         /\ variant = "siglip" => gate = [l \in 1..SeqLayers |-> FALSE]
         /\ ctx = SeqHandle(variant, gate)
    /\ phase = "loaded"
    /\ enc = <<>>
    /\ trace = [lost |-> FALSE, ffn |-> <<>>]
    /\ last_error = ""
    /\ file = <<>>
    /\ arch = NoArch
    /\ res = NoRes
    /\ probe = NoProbe

SeqFrame == UNCHANGED <<variant, file, arch, res, probe>>

\* One call returned (or the process died in it).
SeqCalled(imgs, embs, c, lost, crash, err) ==
    /\ phase' = IF crash THEN "crashed" ELSE phase
    /\ enc' = IF crash THEN enc ELSE Append(enc, [imgs |-> imgs, embs |-> embs])
    /\ ctx' = IF crash THEN ctx ELSE c
    /\ trace' = [lost |-> trace.lost \/ lost,
                 ffn |-> IF crash \/ embs = <<>> THEN trace.ffn ELSE embs[1].ffn]
    /\ last_error' = IF err # "" THEN err ELSE last_error
    /\ SeqFrame

\* siglip_encode_preprocessed
SeqEncodeSiglip ==
    /\ phase = "loaded" /\ variant = "siglip" /\ Len(enc) < MaxSeq
    /\ \E img \in SeqImages, lucky \in BOOLEAN :
         \E seen \in InputSeen(img, SiglipInputLost(ctx)) :
            SeqCalled(<<img>>, <<SeqEmbedding(ctx, seen)>>,
                      SiglipHandleAfter(ctx, 1), SiglipInputLost(ctx),
                      SiglipInputLost(ctx) /\ ~lucky, "")

\* siglip_encode_batch on a batch that holds one image MaxBatch times: one
\* siglip_encode after the other.
SeqBatchSiglip ==
    /\ phase = "loaded" /\ variant = "siglip" /\ Len(enc) < MaxSeq
    /\ \E img \in SeqImages, lucky \in BOOLEAN :
         \E seen \in [1..MaxBatch -> InputSeen(img, TRUE)] :
            SeqCalled([k \in 1..MaxBatch |-> img],
                      [k \in 1..MaxBatch |-> SeqEmbedding(ctx, seen[k])],
                      SiglipHandleAfter(ctx, MaxBatch), TRUE, ~lucky, "")

\* nomic_forward: the compute context and the allocator are the call's own.
SeqEncodeNomic ==
    /\ phase = "loaded" /\ variant = "nomic_cpp" /\ Len(enc) < MaxSeq
    /\ \E img \in SeqImages, initOk \in BOOLEAN :
         SeqCalled(<<img>>,
                   IF initOk
                   THEN <<SeqEmbedding(ctx, CHOOSE x \in InputSeen(img, FALSE) : TRUE)>>
                   ELSE <<>>,
                   ctx, FALSE, FALSE, IF initOk THEN "" ELSE "ComputeContext")

NextSeq ==
    \/ SeqEncodeSiglip
    \/ SeqBatchSiglip
    \/ SeqEncodeNomic

SpecSeq == InitSeq /\ [][NextSeq]_vars

\* The embeddings the calls made so far returned for image img.
\* C23: encoding is stateless across calls: an image gets the same
\* embedding whatever calls went before, and a batch that holds the same
\* image three times gets three identical vectors.
C23_EncodeStateless ==
    \A i \in 1..Len(enc), j \in 1..Len(enc) :
        \A k \in 1..Len(enc[i].embs), m \in 1..Len(enc[j].embs) :
            enc[i].imgs[k] = enc[j].imgs[m] => enc[i].embs[k] = enc[j].embs[m]

\* The weights and the hyper-parameters of a handle.
WeightStore(c) == [slots |-> c.slots, gate |-> c.gate, hp |-> c.hp]

\* C24: after the load no inference call modifies the weight store: every
\* slot binding and every hyper-parameter is the same after any sequence of
\* encode calls.
C24_WeightStoreUnchanged ==
    [][WeightStore(ctx') = WeightStore(ctx)]_vars

\* MaxSeq calls were made on the handle; siglip.cpp's have replaced its
\* compute context.
C24_Witness ==
    /\ phase = "loaded" /\ Len(enc) = MaxSeq
    /\ variant = "siglip" /\ ctx.ctx_compute # 0 /\ trace.lost

\* C25: for each transformer layer the feed-forward block is SwiGLU
\* exactly when the gate weight of that layer is bound, and the plain GELU
\* block otherwise; nothing else decides.
C25_SwigluIffGateBound ==
    trace.ffn # <<>> =>
        \A l \in 1..SeqLayers :
            trace.ffn[l] = IF ctx.gate[l] THEN "swiglu" ELSE "gelu"

\* A forward pass of nomic_cpp on a model whose layers differ in the gate.
C25_Witness ==
    /\ variant = "nomic_cpp" /\ trace.ffn # <<>>
    /\ ctx.gate[1] # ctx.gate[SeqLayers]

----------------------------------------------------------------------------
(* The shape of attention *)

\* C26: in every model that was loaded successfully hidden_size is evenly
\* divisible by num_attention_heads.
C26_HiddenDivisibleByHeads ==
    phase = "loaded" =>
        /\ ctx.hp.num_attention_heads # 0
        /\ ctx.hp.hidden_size % ctx.hp.num_attention_heads = 0

----------------------------------------------------------------------------
(* Archives that end inside the header: the load functions on the first n  *)
(* bytes of a complete archive.                                            *)

HeadArchives ==
    {Arch(MagicBytes, v, PlainKv, tc, 0, FALSE) :
        v \in {GGUF_VERSION_MAX}, tc \in TensorChoices}

InitHead ==
    /\ variant \in Loaders
    /\ arch \in HeadArchives
    /\ \E n \in 0..HeaderBytes :
          file = IF n = HeaderBytes THEN ArchBytes(arch)
                 ELSE SubSeq(ArchBytes(arch), 1, n)
    /\ phase = "init"
    /\ ctx = NoCtx
    /\ res = NoRes
    /\ last_error = ""
    /\ trace = BlankTrace
    /\ enc = NoEnc
    /\ probe = NoProbe

NextHead ==
    \/ LoadSiglip
    \/ LoadSiglipGguf
    \/ LoadDinov2
    \/ LoadEvaclip
    \/ LoadNomic
    \/ LoadNomicCpp
    \/ LoadOpenclip

SpecHead == InitHead /\ [][NextHead]_vars

\* C27: an archive whose header is malformed, also one that ends after the
\* magic so that version, tensor count and metadata count cannot be read,
\* makes the load fail: the loader does not go on with header fields it
\* could not read.
C27_ShortHeaderRejected ==
    (phase # "init" /\ Len(file) < HeaderBytes) => phase = "failed"

----------------------------------------------------------------------------
(* Reading a string from a stream that may end early: gguf_read_string,    *)
(* dinov2_gguf_read_string, nomic_gguf_read_string (nomic_cpp).            *)

MaxData == 3         \* most bytes that follow the length prefix

\* dinov2_gguf_read_string: as gguf_read_string, with the body read only
\* under `len > 0`.
dinov2_gguf_read_string(f, pos, allocOk) ==
    LET h == Fread(f, pos, 8) IN
    IF ~h.ok THEN Rd(<<>>, h.pos, FALSE)
    ELSE IF IsSmall(h.bs) /\ Low24(h.bs) = 0 THEN Rd(<<>>, h.pos, TRUE)
    ELSE gguf_read_string(f, pos, allocOk)

\* nomic_gguf_read_string of nomic_cpp: `if (len == 0) return ""` before the
\* string is made.
nomic_cpp_gguf_read_string(f, pos, allocOk) ==
    LET h == Fread(f, pos, 8) IN
    IF ~h.ok THEN Rd(<<>>, h.pos, FALSE)
    ELSE IF IsSmall(h.bs) /\ Low24(h.bs) = 0 THEN Rd(<<>>, h.pos, TRUE)
    ELSE gguf_read_string(f, pos, allocOk)

\* Length prefixes: 0 to MaxData + 1, 2^24, and 2^64 - 1.
StrPrefixes ==
    {LE(n, 8) : n \in 0..(MaxData + 1)}
    \cup {<<0, 0, 0, 1, 0, 0, 0, 0>>, [i \in 1..8 |-> 255]}

\* The stream holds a whole prefix and up to MaxData bytes, or ends inside
\* the prefix.
StrStreams ==
    {[prefix |-> p, data |-> [i \in 1..k |-> 65]] : p \in StrPrefixes, k \in 0..MaxData}
    \cup {[prefix |-> SubSeq(LE(1, 8), 1, n), data |-> <<>>] : n \in 0..7}

StrReaders == {"siglip_gguf", "dinov2", "nomic_cpp"}

InitStr ==
    /\ variant \in StrReaders
    /\ arch \in StrStreams
    /\ file = arch.prefix \o arch.data
    /\ probe = NoProbe
    /\ enc = [s |-> <<>>]
    /\ phase = "probe"
    /\ ctx = NoCtx
    /\ res = NoRes
    /\ last_error = ""
    /\ trace = NoTrace

\* The string was read.
StrRead(r) ==
    /\ probe' = Probed(r)
    /\ enc' = [s |-> r.s]
    /\ UNCHANGED <<variant, file, arch, phase, ctx, res, last_error, trace>>

ReadStringGguf ==
    /\ variant = "siglip_gguf" /\ ~probe.done
    /\ \E allocOk \in BOOLEAN : StrRead(gguf_read_string(file, 0, allocOk))

ReadStringDinov2 ==
    /\ variant = "dinov2" /\ ~probe.done
    /\ \E allocOk \in BOOLEAN : StrRead(dinov2_gguf_read_string(file, 0, allocOk))

ReadStringNomicCpp ==
    /\ variant = "nomic_cpp" /\ ~probe.done
    /\ \E allocOk \in BOOLEAN : StrRead(nomic_cpp_gguf_read_string(file, 0, allocOk))

NextStr ==
    \/ ReadStringGguf
    \/ ReadStringDinov2
    \/ ReadStringNomicCpp

SpecStr == InitStr /\ [][NextStr]_vars

\* The stream ends before the length prefix is complete or before the
\* bytes the prefix declares.
StreamShort ==
    Len(arch.prefix) < 8 \/ UInt(arch.prefix) > Len(arch.data)

\* C28: whenever the stream ends before the 8-byte length prefix or before
\* the declared bytes, whatever the declared length, read_string returns
\* the empty string and leaves the stream at end of file.
C28_ShortStringIsEmpty ==
    (probe.done /\ StreamShort) =>
        /\ ~probe.crash
        /\ enc.s = <<>>
        /\ probe.pos = Len(file)

----------------------------------------------------------------------------
(* Resizing an image: the source pixels bilinear interpolation reads in    *)
(* nomic_preprocess_image with bilinear_sample, in preprocess_image of     *)
(* openclip and in nomic_encode_image.                                     *)

MaxSide == 4         \* largest width, height and target size

Resizers == {"nomic_preprocess", "openclip", "nomic_cpp"}

\* (int) of the float num / den >= 0.  The product x * scale is rounded:
\* where it is a whole number in exact arithmetic and the scale is not, the
\* float may lie just below it.
FloorOf(num, den, exactScale) ==
    {num \div den}
    \cup (IF num % den = 0 /\ num > 0 /\ ~exactScale THEN {num \div den - 1} ELSE {})

\* std::min(x0 + 1, width - 1)
NextUnclamped(x0, width) == x0 + 1
NextClamped(x0, width) == Min(x0 + 1, width - 1)

\* bilinear_sample called with src = (x + 0.5f) * scale - 0.5f: the
\* coordinate is bounded to [0, width - 1] before it is truncated.
bilinear_sample(x, width, target) ==
    LET num == (2 * x + 1) * width - target
        den == 2 * target
    IN IF num <= 0 THEN {0}
       ELSE IF num >= (width - 1) * den THEN {width - 1}
       ELSE {Max(0, f) : f \in FloorOf(num, den, width % target = 0)}

\* preprocess_image and nomic_encode_image: src = x * scale, x0 = (int)src.
preprocess_image(x, width, target) ==
    FloorOf(x * width, target, width % target = 0)

\* The first of the two source indices read along one axis for target
\* index x.
SourceIndex(v, x, width, target) ==
    IF v = "nomic_preprocess" THEN bilinear_sample(x, width, target)
    ELSE preprocess_image(x, width, target)

\* All source indices read along one axis: x0 and x1 for every target index.
AxisReads(v, width, target) ==
    UNION {{x0, NextClamped(x0, width)} :
             x0 \in UNION {SourceIndex(v, x, width, target) : x \in 0..(target - 1)}}

InitResize ==
    /\ variant \in Resizers
    /\ \E w \in 1..MaxSide, h \in 1..MaxSide, t \in 1..MaxSide :
          probe = [width |-> w, height |-> h, target |-> t]
    /\ enc = [done |-> FALSE, xs |-> {}, ys |-> {}]
    /\ phase = "loaded"
    /\ ctx = NoCtx
    /\ res = NoRes
    /\ last_error = ""
    /\ trace = NoTrace
    /\ file = <<>>
    /\ arch = NoArch

\* The image was resized: the columns and the rows that were read.
Resized(v) ==
    /\ ~enc.done
    /\ enc' = [done |-> TRUE,
               xs |-> AxisReads(v, probe.width, probe.target),
               ys |-> AxisReads(v, probe.height, probe.target)]
    /\ UNCHANGED <<variant, file, arch, phase, ctx, res, last_error, trace, probe>>

ResizeNomicPreprocess == variant = "nomic_preprocess" /\ Resized(variant)
ResizeOpenclip == variant = "openclip" /\ Resized(variant)
ResizeNomicCpp == variant = "nomic_cpp" /\ Resized(variant)

NextResize ==
    \/ ResizeNomicPreprocess
    \/ ResizeOpenclip
    \/ ResizeNomicCpp

SpecResize == InitResize /\ [][NextResize]_vars

\* C29: during the resize every source pixel that bilinear interpolation
\* reads lies within [0, width - 1] x [0, height - 1], for all positive
\* source and target sizes: indices are clamped, they never wrap.
C29_SourceIndicesInBounds ==
    enc.done =>
        /\ \A px \in enc.xs : 0 <= px /\ px <= probe.width - 1
        /\ \A py \in enc.ys : 0 <= py /\ py <= probe.height - 1

\* An image of two columns enlarged to four: the last target column reads
\* column 1, and its right neighbour is clamped to column 1.
C29_Witness ==
    /\ enc.done /\ probe.width = 2 /\ probe.target = MaxSide
    /\ enc.xs = {0, 1} /\ probe.height < probe.target

----------------------------------------------------------------------------
(* The shapes in self-attention: siglip_self_attention and build_attention *)
(* of nomic_cpp.  A tensor is its four extents ne and whether its memory   *)
(* is contiguous; Aborted is what a failed GGML_ASSERT leaves.             *)

MaxHidden == 4       \* largest hidden_size
MaxHeads == 4        \* largest num_attention_heads
MaxTokens == 4       \* largest number of tokens

Aborted == [ne |-> <<>>, cont |-> FALSE]
Tensor(ne) == [ne |-> ne, cont |-> TRUE]
Elements(t) == t.ne[1] * t.ne[2] * t.ne[3] * t.ne[4]

\* ggml_mul_mat(a, b): the rows of both have the same length and the outer
\* extents of b are multiples of those of a; the result is a.ne[1] x b.ne[1].
ggml_mul_mat(a, b) ==
    IF a = Aborted \/ b = Aborted THEN Aborted
    ELSE IF a.ne[1] = b.ne[1] /\ b.ne[3] % a.ne[3] = 0 /\ b.ne[4] % a.ne[4] = 0
    THEN Tensor(<<a.ne[2], b.ne[2], b.ne[3], b.ne[4]>>)
    ELSE Aborted

\* ggml_reshape_3d, ggml_reshape_2d: of a contiguous tensor, to as many
\* elements.
ggml_reshape(a, ne) ==
    IF a = Aborted THEN Aborted
    ELSE IF a.cont /\ Elements(a) = Elements(Tensor(ne)) THEN Tensor(ne)
    ELSE Aborted

\* ggml_permute(ctx, a, 0, 2, 1, 3): extents 1 and 2 change places.
ggml_permute(a) ==
    IF a = Aborted THEN Aborted
    ELSE [ne |-> <<a.ne[1], a.ne[3], a.ne[2], a.ne[4]>>, cont |-> FALSE]

\* ggml_transpose: extents 0 and 1 change places.
ggml_transpose(a) ==
    IF a = Aborted THEN Aborted
    ELSE [ne |-> <<a.ne[2], a.ne[1], a.ne[3], a.ne[4]>>, cont |-> FALSE]

ggml_cont(a) == IF a = Aborted THEN Aborted ELSE Tensor(a.ne)

\* The graph of one attention block for input x [hidden, n_tokens]; the
\* projection weights are [hidden, hidden].  ggml_scale and ggml_soft_max
\* keep the shape.
Attention(x, n_heads) ==
    LET n_tokens == x.ne[2]
        hidden == x.ne[1]
        head_dim == hidden \div n_heads
        w == Tensor(<<hidden, hidden, 1, 1>>)
        q == ggml_permute(ggml_reshape(ggml_mul_mat(w, x), <<head_dim, n_heads, n_tokens, 1>>))
        k == ggml_permute(ggml_reshape(ggml_mul_mat(w, x), <<head_dim, n_heads, n_tokens, 1>>))
        v == ggml_permute(ggml_reshape(ggml_mul_mat(w, x), <<head_dim, n_heads, n_tokens, 1>>))
        scores == ggml_mul_mat(k, q)
        out == ggml_mul_mat(v, ggml_cont(ggml_transpose(scores)))
        merged == ggml_reshape(ggml_cont(ggml_permute(out)), <<hidden, n_tokens, 1, 1>>)
    IN ggml_mul_mat(w, merged)

siglip_self_attention(x, n_heads) == Attention(x, n_heads)
build_attention(x, n_heads) == Attention(x, n_heads)

InitAttn ==
    /\ variant \in {"siglip", "nomic_cpp"}
    /\ \E hidden \in 1..MaxHidden, n_heads \in 1..MaxHeads, n_tokens \in 1..MaxTokens :
          probe = [x |-> Tensor(<<hidden, n_tokens, 1, 1>>), n_heads |-> n_heads]
    /\ enc = [done |-> FALSE, out |-> Aborted]
    /\ phase = "loaded"
    /\ ctx = NoCtx
    /\ res = NoRes
    /\ last_error = ""
    /\ trace = NoTrace
    /\ file = <<>>
    /\ arch = NoArch

AttnBuilt(out) ==
    /\ ~enc.done
    /\ enc' = [done |-> TRUE, out |-> out]
    /\ phase' = IF out = Aborted THEN "crashed" ELSE phase
    /\ UNCHANGED <<variant, file, arch, ctx, res, last_error, trace, probe>>

AttnSiglip ==
    variant = "siglip" /\ AttnBuilt(siglip_self_attention(probe.x, probe.n_heads))

AttnNomicCpp ==
    variant = "nomic_cpp" /\ AttnBuilt(build_attention(probe.x, probe.n_heads))

NextAttn ==
    \/ AttnSiglip
    \/ AttnNomicCpp

SpecAttn == InitAttn /\ [][NextAttn]_vars

\* C30: for any hidden_size divisible by num_attention_heads the output
\* of self-attention has exactly the shape of its input, hidden_size x
\* num_tokens.
C30_AttentionKeepsShape ==
    (enc.done /\ probe.x.ne[1] % probe.n_heads = 0) => enc.out = probe.x

====
